---- MODULE Spec2Model ----
(***************************************************************************)
(* A model of abnamroparser: the TSV statement reader (abnamroparser/      *)
(* tsvparser.py) with its description rejoiner and description decoder.    *)
(*                                                                         *)
(* A Python str is modelled as a sequence of one-character strings.  The   *)
(* description column of a TAB file is one field of one text line, so the  *)
(* strings drawn as inputs are single-line texts (letters, digits,         *)
(* punctuation and the space character).                                   *)
(***************************************************************************)
EXTENDS Integers, Sequences, FiniteSets, TLC

VARIABLES
    rj_t,       \* the unspaced text a rejoin_description argument is built from
    rj_s,       \* the argument s of rejoin_description
    rj_ret,     \* what the call returned or raised
    rj_pc,      \* "call" before the call, "done" after it
    pd_gen,     \* how the parse_description argument was put together
    pd_s,       \* the argument s of parse_description
    pd_ret,     \* what the call returned or raised
    pd_pc,      \* "call" before the call, "done" after it
    file,       \* the lines given to read_tsv
    lineno,        \* the index in file of the next line to be read
    order,      \* the local variable order of read_tsv
    out,        \* the Transactions read_tsv has yielded so far
    tsv_err,    \* the exception read_tsv raised, "none" if none
    tsv_pc,     \* "reading", "done" (exhausted) or "failed" (raised)
    eq_a,       \* the Transaction self of __eq__
    eq_b,       \* the Transaction other of __eq__
    eq_ret,     \* what a == b returned
    eq_pc,      \* "call" before the comparison, "done" after it
    ds_line,    \* the line of a TAB file a Transaction is read from
    ds_t,       \* the Transaction whose desc is accessed
    ds_ref,     \* which str objects its description and _desc_str refer to
    ds_calls,   \* the number of calls of parse_description made by desc
    ds_ret,     \* what the last access of desc returned or raised
    ds_hist,    \* what happened since description was last assigned
    ds_ops,     \* the number of accesses and assignments so far
    ds_pc,      \* "read" before the row is read, then "live" or "failed"
    mf_m,       \* the Money given to money_format
    mf_ret,     \* what money_format returned
    mf_pc,      \* "call" before money_format is called, "done" after it
    cd_date,    \* the date of the page convert_date is called on
    cd_text,    \* the text given to convert_date
    cd_ret,     \* what convert_date returned or raised
    cd_pc,      \* "call" before convert_date is called, "done" after it
    pg_pages,   \* the pages given to get_transactions_from_pages
    pg_table,   \* the table of all the pages, its rows converted
    pg_groups,  \* the groups group_related_rows yields from the table
    pg_k,       \* the number of groups taken so far
    pg_row,     \* the number of rows in the groups taken so far
    pg_card,    \* card_number
    pg_out,     \* the Transactions yielded so far
    pg_from,    \* for each of them, the position in the table of its first row
    pg_err,     \* the exception raised, "none" without one
    pg_pc,      \* "start", then "loop", then "done" or "failed"
    vs_page,    \* the Page whose visitor is called
    vs_before,  \* the Page as it was before the last call of the visitor
    vs_arg,     \* the text, matrices and font size of the last call
    vs_ret,     \* what the last call of the visitor returned or raised
    vs_calls,   \* the number of calls of the visitor so far
    vs_pc       \* "open" while the page is read, "failed" after an exception

rjVars == <<rj_t, rj_s, rj_ret, rj_pc>>

pdVars == <<pd_gen, pd_s, pd_ret, pd_pc>>

tsvVars == <<file, lineno, order, out, tsv_err, tsv_pc>>

eqVars == <<eq_a, eq_b, eq_ret, eq_pc>>

dsVars == <<ds_line, ds_t, ds_ref, ds_calls, ds_ret, ds_hist, ds_ops, ds_pc>>

mfVars == <<mf_m, mf_ret, mf_pc>>

cdVars == <<cd_date, cd_text, cd_ret, cd_pc>>

pgVars == <<pg_pages, pg_table, pg_groups, pg_k, pg_row, pg_card, pg_out, pg_from,
            pg_err, pg_pc>>

vsVars == <<vs_page, vs_before, vs_arg, vs_ret, vs_calls, vs_pc>>

vars == <<rjVars, pdVars, tsvVars, eqVars, dsVars, mfVars, cdVars, pgVars, vsVars>>

----------------------------------------------------------------------------
(* Python values *)

\* A call either returns a value or raises.
Ok(v) == [ok |-> TRUE, val |-> v, err |-> "none"]

Raise(e) == [ok |-> FALSE, val |-> <<>>, err |-> e]

\* No call made yet.
Pending == [ok |-> FALSE, val |-> <<>>, err |-> "pending"]

Min(a, b) == IF a <= b THEN a ELSE b

NL == "\n"

\* The characters str.rstrip() / str.strip() remove (the ASCII ones).
WS == {" ", "\t", "\n", "\r", "\f"}

\* s[a:b] for 0 <= a, 0 <= b
Slice(s, a, b) ==
    LET hi == Min(b, Len(s)) IN
    IF a < hi THEN SubSeq(s, a + 1, hi) ELSE <<>>

\* s[a:] for 0 <= a
SliceFrom(s, a) == Slice(s, a, Len(s))

\* s.startswith(p)
StartsWith(s, p) == Len(p) <= Len(s) /\ SubSeq(s, 1, Len(p)) = p

RECURSIVE RStripLen(_, _)
RStripLen(s, n) ==
    IF n = 0 THEN 0
    ELSE IF s[n] \in WS THEN RStripLen(s, n - 1) ELSE n

\* s.rstrip()
RStrip(s) == SubSeq(s, 1, RStripLen(s, Len(s)))

RECURSIVE LStripPos(_, _)
LStripPos(s, i) ==
    IF i > Len(s) THEN i
    ELSE IF s[i] \in WS THEN LStripPos(s, i + 1) ELSE i

\* s.lstrip()
LStrip(s) == SubSeq(s, LStripPos(s, 1), Len(s))

\* s.strip()
Strip(s) == LStrip(RStrip(s))

RECURSIVE Concat(_)
\* "".join(parts)
Concat(parts) ==
    IF parts = <<>> THEN <<>> ELSE Head(parts) \o Concat(Tail(parts))

RECURSIVE DotRunEnd(_, _, _)
\* The regex .{1,n} matched greedily at pos (s[pos] is no newline): the index
\* of the last character matched, left is how many more it may take.
DotRunEnd(s, pos, left) ==
    IF left > 1 /\ pos < Len(s) /\ s[pos + 1] # NL
    THEN DotRunEnd(s, pos + 1, left - 1)
    ELSE pos

RECURSIVE FindAllFrom(_, _, _, _)
FindAllFrom(s, pos, n, sp) ==
    IF pos > Len(s) THEN <<>>
    ELSE IF s[pos] = NL THEN FindAllFrom(s, pos + 1, n, sp)
    ELSE LET e  == DotRunEnd(s, pos, n)
             e2 == IF sp /\ e < Len(s) /\ s[e + 1] = " " THEN e + 1 ELSE e
         IN  <<SubSeq(s, pos, e2)>> \o FindAllFrom(s, e2 + 1, n, sp)

\* re.findall(r".{1,n}", s), and re.findall(r".{1,n} ?", s) when sp
FindAll(s, n, sp) == FindAllFrom(s, 1, n, sp)

----------------------------------------------------------------------------
(* rejoin_description *)

\* s[:32] is the head
HeadLen == 32

\* r".{1,64} ?": a display line
LineLen == 64

\* len(p) == 65: a display line and its injected space
LineSpLen == 65

\* The parts joined as they are, injected spaces kept.
CutParts_KeepSpace(parts) == parts

\* p[:64] for p in parts
CutParts(parts) == [i \in 1..Len(parts) |-> Slice(parts[i], 0, LineLen)]

\* The assertion on the parts left out.
AllButLastFull_Unchecked(parts) == TRUE

\* all(len(p) == 65 for p in parts[:-1])
AllButLastFull(parts) ==
    \A i \in 1..(Len(parts) - 1) : Len(parts[i]) = LineSpLen

\* re.findall(r".{1,64} ?", s[33:].rstrip())
RejoinParts(s) == FindAll(RStrip(SliceFrom(s, HeadLen + 1)), LineLen, TRUE)

\* rejoin_description without its first branch.
rejoin_description_NoSlashCase(s) ==
    IF Len(s) <= HeadLen THEN Raise("IndexError")
    ELSE IF s[HeadLen + 1] # " " THEN Raise("AssertionError")
    ELSE LET parts == RejoinParts(s) IN
         IF ~AllButLastFull(parts) THEN Raise("AssertionError")
         ELSE Ok(Slice(s, 0, HeadLen) \o Concat(CutParts(parts)))

rejoin_description(s) ==
    IF StartsWith(s, <<"/">>) THEN Ok(s)
    ELSE IF Len(s) <= HeadLen THEN Raise("IndexError")
    ELSE IF s[HeadLen + 1] # " " THEN Raise("AssertionError")
    ELSE LET parts == RejoinParts(s) IN
         IF ~AllButLastFull(parts) THEN Raise("AssertionError")
         ELSE Ok(Slice(s, 0, HeadLen) \o Concat(CutParts(parts)))

----------------------------------------------------------------------------
(* Inputs of rejoin_description *)

\* Texts are built from at most MaxPieces pieces.
MaxPieces == 4

Letters == <<"a", "b", "c", "d", "e", "f", "g">>

\* n letters, no two neighbours alike
Fill(n) == [i \in 1..n |-> Letters[((i - 1) % 7) + 1]]

RejoinPieces ==
    { <<"/">>, <<"x">>, <<" ">>, Fill(31), Fill(32), Fill(64) }

RECURSIVE TextsUpTo(_, _)
TextsUpTo(pieces, k) ==
    IF k = 0 THEN { <<>> }
    ELSE LET prev == TextsUpTo(pieces, k - 1) IN
         prev \cup { t \o p : t \in prev, p \in pieces }

\* What the upstream system does to a text t: the first 32 characters, then
\* the rest in display lines of 64 characters, joined with one space each.
JoinLines(t) ==
    IF Len(t) <= HeadLen THEN t
    ELSE LET rest  == Len(t) - HeadLen
             lines == (rest + LineLen - 1) \div LineLen
         IN  [j \in 1..(Len(t) + lines) |->
                IF j <= HeadLen THEN t[j]
                ELSE LET q == (j - HeadLen - 1) \div LineSpLen
                         r == (j - HeadLen - 1) % LineSpLen
                     IN  IF r = 0 THEN " " ELSE t[HeadLen + q * LineLen + r]]

\* The number of display lines JoinLines cuts t into.
LineCount(t) ==
    IF Len(t) <= HeadLen THEN 0
    ELSE (Len(t) - HeadLen + LineLen - 1) \div LineLen

\* The index in JoinLines(t) of the space injected before display line k.
InjectedAt(k) == HeadLen + 1 + (k - 1) * LineSpLen

\* An upstream format change: the space before display line k is another
\* character, or is missing.
Unspaced(j, k) == [j EXCEPT ![InjectedAt(k)] = "_"]

Unjoined(j, k) == SubSeq(j, 1, InjectedAt(k) - 1) \o SubSeq(j, InjectedAt(k) + 1, Len(j))

RejoinArgs(t) ==
    {t, JoinLines(t)}
        \cup { Unspaced(JoinLines(t), k) : k \in 1..LineCount(t) }
        \cup { Unjoined(JoinLines(t), k) : k \in 1..LineCount(t) }

RejoinInit ==
    /\ rj_t \in TextsUpTo(RejoinPieces, MaxPieces)
    /\ rj_s \in RejoinArgs(rj_t)
    /\ rj_ret = Pending
    /\ rj_pc = "call"

RejoinCall ==
    /\ rj_pc = "call"
    /\ rj_ret' = rejoin_description(rj_s)
    /\ rj_pc' = "done"
    /\ UNCHANGED <<rj_t, rj_s, pdVars, tsvVars, eqVars, dsVars, mfVars, cdVars, pgVars, vsVars>>

----------------------------------------------------------------------------
(* Strings, regular expressions, dicts *)

Digits == <<"0", "1", "2", "3", "4", "5", "6", "7", "8", "9">>

DigitSet == {Digits[i] : i \in 1..10}

DigitVal(c) == (CHOOSE i \in 1..10 : Digits[i] = c) - 1

\* A non-empty run of decimal digits: what int() takes among the strings met here
IsDigits(s) == s # <<>> /\ \A i \in 1..Len(s) : s[i] \in DigitSet

RECURSIVE ToInt(_)
\* int(s) for a run of decimal digits
ToInt(s) ==
    IF s = <<>> THEN 0
    ELSE 10 * ToInt(SubSeq(s, 1, Len(s) - 1)) + DigitVal(s[Len(s)])

\* "{:02d}".format(n) for 0 <= n < 100
Pad2(n) == <<Digits[(n \div 10) + 1], Digits[(n % 10) + 1]>>

\* "{:04d}".format(n) for 0 <= n < 10000
Pad4(n) == Pad2(n \div 100) \o Pad2(n % 100)

\* The first index >= i of a character of seps in s, Len(s) + 1 without one
NextSep(s, seps, i) ==
    IF \E j \in i..Len(s) : s[j] \in seps
    THEN CHOOSE j \in i..Len(s) : s[j] \in seps /\ \A k \in i..(j - 1) : s[k] \notin seps
    ELSE Len(s) + 1

RECURSIVE SplitFrom(_, _, _)
SplitFrom(s, seps, start) ==
    LET j == NextSep(s, seps, start) IN
    IF j > Len(s) THEN << SubSeq(s, start, Len(s)) >>
    ELSE << SubSeq(s, start, j - 1) >> \o SplitFrom(s, seps, j + 1)

\* s.split(c) for seps = {c}; re.split("[...]", s) for a class of characters
SplitOn(s, seps) == SplitFrom(s, seps, 1)

RECURSIVE RunEnd(_, _, _, _)
\* The index after the longest run, from index i on, of characters that are
\* in cs (inside) or are not in cs (~inside).
RunEnd(s, i, cs, inside) ==
    IF i > Len(s) THEN i
    ELSE IF (s[i] \in cs) = inside THEN RunEnd(s, i + 1, cs, inside) ELSE i

\* p occurs in s at index i
OccursAt(s, i, p) == i + Len(p) - 1 <= Len(s) /\ SubSeq(s, i, i + Len(p) - 1) = p

RECURSIVE FindFrom(_, _, _)
\* The first index >= i at which p occurs in s, 0 when there is none
FindFrom(s, p, i) ==
    IF i + Len(p) - 1 > Len(s) THEN 0
    ELSE IF OccursAt(s, i, p) THEN i ELSE FindFrom(s, p, i + 1)

\* s.partition(sep): <<before, sep, after>>, <<s, "", "">> without sep in s
Partition(s, sep) ==
    LET i == FindFrom(s, sep, 1) IN
    IF i = 0 THEN <<s, <<>>, <<>>>>
    ELSE <<SubSeq(s, 1, i - 1), sep, SubSeq(s, i + Len(sep), Len(s))>>

\* s.replace(a, b) for characters a, b
Replace(s, a, b) == [i \in 1..Len(s) |-> IF s[i] = a THEN b ELSE s[i]]

\* re.sub(r" +", " ", s): of every run of spaces the first one stays
CollapseSpaces(s) ==
    LET marked == [i \in 1..Len(s) |-> <<s[i], s[i] = " " /\ i > 1 /\ s[i - 1] = " ">>]
        kept   == SelectSeq(marked, LAMBDA m : ~m[2])
    IN  [i \in 1..Len(kept) |-> kept[i][1]]

\* The result of re.fullmatch: the groups, or no match (None)
Match(g) == [m |-> TRUE, g |-> g]

NoMatch == [m |-> FALSE, g |-> <<>>]

\* dict(pairs): the last pair of a key wins
DictOf(pairs) ==
    [k \in {pairs[i][1] : i \in 1..Len(pairs)} |->
        LET last == CHOOSE i \in 1..Len(pairs) :
                        /\ pairs[i][1] = k
                        /\ \A j \in (i + 1)..Len(pairs) : pairs[j][1] # k
        IN  pairs[last][2]]

\* {**d, **e}
Update(d, e) ==
    [k \in (DOMAIN d) \cup (DOMAIN e) |-> IF k \in DOMAIN e THEN e[k] ELSE d[k]]

----------------------------------------------------------------------------
(* parse_description *)

\* The keys of the mappings parse_description returns
Key ==
    [ type |->
        <<"t", "y", "p", "e">>,
      description |->
        <<"d", "e", "s", "c", "r", "i", "p", "t", "i", "o", "n">>,
      datetime |->
        <<"d", "a", "t", "e", "t", "i", "m", "e">>,
      NR |->
        <<"N", "R">>,
      Naam |->
        <<"N", "a", "a", "m">>,
      card |->
        <<"c", "a", "r", "d">>,
      location |->
        <<"l", "o", "c", "a", "t", "i", "o", "n">>,
      suffix |->
        <<"s", "u", "f", "f", "i", "x">>,
      Incassant |->
        <<"I", "n", "c", "a", "s", "s", "a", "n", "t">>,
      Omschrijving |->
        <<"O", "m", "s", "c", "h", "r", "i", "j", "v", "i", "n", "g">>,
      Machtiging |->
        <<"M", "a", "c", "h", "t", "i", "g", "i", "n", "g">>,
      Kenmerk |->
        <<"K", "e", "n", "m", "e", "r", "k">>,
      IBAN |->
        <<"I", "B", "A", "N">>,
      BIC |->
        <<"B", "I", "C">>,
      Voor |->
        <<"V", "o", "o", "r">> ]

\* The tags of a slash-delimited description
Tag ==
    [ TRTP |->
        <<"T", "R", "T", "P">>,
      CSID |->
        <<"C", "S", "I", "D">>,
      NAME |->
        <<"N", "A", "M", "E">>,
      REMI |->
        <<"R", "E", "M", "I">>,
      MARF |->
        <<"M", "A", "R", "F">>,
      EREF |->
        <<"E", "R", "E", "F">>,
      IBAN |->
        <<"I", "B", "A", "N">>,
      BIC |->
        <<"B", "I", "C">>,
      ORDP |->
        <<"O", "R", "D", "P">>,
      ID |->
        <<"I", "D">> ]

\* The texts parse_description looks for and the type names it writes
Txt ==
    [ iDEAL |->
        <<"i", "D", "E", "A", "L">>,
      SEPA_iDEAL |->
        <<"S", "E", "P", "A", " ", "i", "D", "E", "A", "L">>,
      ABN_AMRO_Bank |->
        <<"A", "B", "N", " ", "A", "M", "R", "O", " ", "B", "a", "n", "k">>,
      BEA |->
        <<"B", "E", "A">>,
      GEA |->
        <<"G", "E", "A">>,
      NR |->
        <<"N", "R", ":">>,
      PAS |->
        <<",", "P", "A", "S">>,
      SEPA_ |->
        <<"S", "E", "P", "A", " ">>,
      CREDIT_INTEREST |->
        <<"C", "R", "E", "D", "I", "T", " ", "I", "N", "T", "E", "R", "E", "S", "T">>,
      Basic_interest |->
        <<"B", "a", "s", "i", "c", " ", "i", "n", "t", "e", "r", "e", "s", "t">>,
      Maandpremie_ |->
        <<"M", "a", "a", "n", "d", "p", "r", "e", "m", "i", "e", " ">>,
      Uitbetaling_pakketkorting |->
        <<"U", "i", "t", "b", "e", "t", "a", "l", "i", "n", "g", " ", "p", "a", "k", "k", "e", "t", "k", "o", "r", "t", "i", "n", "g">>,
      PAKKETVERZ_POLISNR |->
        <<"P", "A", "K", "K", "E", "T", "V", "E", "R", "Z", ".", " ", "P", "O", "L", "I", "S", "N", "R", ".">>,
      legacy_insurance |->
        <<"l", "e", "g", "a", "c", "y", " ", "i", "n", "s", "u", "r", "a", "n", "c", "e">> ]

\* The head and the bands of a description are 32 characters wide.
BandLen == 32

\* re.fullmatch(r"TRTP|CSID|NAME|REMI|MARF|EREF|IBAN|BIC|ORDP|ID", p)
SlashTags == {Tag.TRTP, Tag.CSID, Tag.NAME, Tag.REMI, Tag.MARF, Tag.EREF, Tag.IBAN, Tag.BIC, Tag.ORDP, Tag.ID}

\* ORDP and ID kept under keys of their own.
key_map_KeepAll ==
    [t \in SlashTags |->
        CASE t = Tag.TRTP -> Key.type
          [] t = Tag.CSID -> Key.Incassant
          [] t = Tag.NAME -> Key.Naam
          [] t = Tag.REMI -> Key.Omschrijving
          [] t = Tag.MARF -> Key.Machtiging
          [] t = Tag.EREF -> Key.Kenmerk
          [] t = Tag.IBAN -> Key.IBAN
          [] t = Tag.BIC  -> Key.BIC
          [] t = Tag.ORDP -> Tag.ORDP
          [] t = Tag.ID   -> Tag.ID]

key_map ==
    [t \in SlashTags |->
        CASE t = Tag.TRTP -> Key.type
          [] t = Tag.CSID -> Key.Incassant
          [] t = Tag.NAME -> Key.Naam
          [] t = Tag.REMI -> Key.Omschrijving
          [] t = Tag.MARF -> Key.Machtiging
          [] t = Tag.EREF -> Key.Kenmerk
          [] t = Tag.IBAN -> Key.IBAN
          [] t = Tag.BIC  -> Key.BIC
          [] t = Tag.ORDP -> <<>>
          [] t = Tag.ID   -> <<>>]

\* A piece that is no tag dropped instead of merged.
MergeLast_Dropped(parts, p) == parts

\* parts.append(parts.pop() + "/" + p)
MergeLast(parts, p) == [parts EXCEPT ![Len(parts)] = @ \o <<"/">> \o p]

RECURSIVE SlashFold(_, _, _)
\* for p in s[1:].split("/"): ...
SlashFold(pieces, i, parts) ==
    IF i > Len(pieces) THEN Ok(parts)
    ELSE LET p == pieces[i] IN
         IF Len(parts) % 2 = 0
         THEN IF p \in SlashTags
              THEN SlashFold(pieces, i + 1, Append(parts, p))
              ELSE IF parts = <<>> THEN Raise("IndexError")
                   ELSE SlashFold(pieces, i + 1, MergeLast(parts, p))
         ELSE SlashFold(pieces, i + 1, Append(parts, p))

\* The list parts of the slash branch
SlashParts(s) == SlashFold(SplitOn(SliceFrom(s, 1), {"/"}), 1, <<>>)

\* (key_map[k], v.rstrip()) for (k, v) in batched(parts, 2) if key_map[k] != ""
SlashItems(parts) ==
    SelectSeq([i \in 1..(Len(parts) \div 2) |->
                  <<key_map[parts[2 * i - 1]], RStrip(parts[2 * i])>>],
              LAMBDA kv : kv[1] # <<>>)

\* The type read with data.get("type"): no KeyError.
TypeRewritten_Unchecked(data) ==
    Ok(IF Key.type \in DOMAIN data /\ data[Key.type] = Txt.iDEAL
       THEN [data EXCEPT ![Key.type] = Txt.SEPA_iDEAL] ELSE data)

\* if data["type"] == "iDEAL": data["type"] = "SEPA iDEAL"
TypeRewritten(data) ==
    IF Key.type \notin DOMAIN data THEN Raise("KeyError")
    ELSE Ok(IF data[Key.type] = Txt.iDEAL
            THEN [data EXCEPT ![Key.type] = Txt.SEPA_iDEAL] ELSE data)

ParseSlash(s) ==
    LET f == SlashParts(s) IN
    IF ~f.ok THEN f
    ELSE IF Len(f.val) % 2 = 1 THEN Raise("ValueError")
    ELSE TypeRewritten(DictOf(SlashItems(f.val)))

\* The head kept as cut, trailing whitespace and all.
HeadOf_Unstripped(s) == Slice(s, 0, BandLen)

\* head = s[:32].rstrip()
HeadOf(s) == RStrip(Slice(s, 0, BandLen))

\* tail = s[32:].rstrip()
TailOf(s) == RStrip(SliceFrom(s, BandLen))

\* re.findall(r".{1,32}", tail)
Bands(tail) == FindAll(tail, BandLen, FALSE)

\* [-0-9,.]
CostChars == DigitSet \cup {"-", ",", "."}

RECURSIVE LastSpace(_, _)
LastSpace(p, i) == IF i = 0 THEN 0 ELSE IF p[i] = " " THEN i ELSE LastSpace(p, i - 1)

RECURSIVE SpacesCut(_, _)
\* The number of characters left once the spaces at the end are cut off
SpacesCut(p, n) == IF n = 0 THEN 0 ELSE IF p[n] = " " THEN SpacesCut(p, n - 1) ELSE n

\* re.fullmatch(r"^(.*[^ ]) +([-0-9,.]+)$", p), p without line break
CostMatch(p) ==
    LET j == LastSpace(p, Len(p))
        v == SubSeq(p, j + 1, Len(p))
        k == SubSeq(p, 1, SpacesCut(p, j))
    IN  IF j = 0 \/ v = <<>> \/ k = <<>> THEN NoMatch
        ELSE IF \E i \in 1..Len(v) : v[i] \notin CostChars THEN NoMatch
        ELSE Match(<<k, v>>)

\* The bank fees
ParseFees(head, tail) ==
    LET parts == Bands(tail)
        ms    == [i \in 1..Len(parts) |-> CostMatch(parts[i])]
    IN  IF \E i \in 1..Len(ms) : ~ms[i].m THEN Raise("AttributeError")
        ELSE Ok(Update((Key.type :> head),
                       DictOf([i \in 1..Len(ms) |->
                                  <<ms[i].g[1], Replace(ms[i].g[2], ",", ".")>>])))

\* [0-9./:]
DtChars == DigitSet \cup {".", "/", ":"}

IsLeap(y) == (y % 4 = 0 /\ y % 100 # 0) \/ y % 400 = 0

DaysInMonth(y, m) ==
    IF m = 2 THEN (IF IsLeap(y) THEN 29 ELSE 28)
    ELSE IF m \in {4, 6, 9, 11} THEN 30 ELSE 31

\* datetime(year, month, day, hour, minute) accepts its arguments
ValidDateTime(y, m, d, H, M) ==
    /\ 1 <= y /\ y <= 9999
    /\ 1 <= m /\ m <= 12
    /\ 1 <= d /\ d <= DaysInMonth(y, m)
    /\ 0 <= H /\ H <= 23
    /\ 0 <= M /\ M <= 59

\* datetime.isoformat() of a datetime with no seconds
IsoFormat(y, m, d, H, M) ==
    Pad4(y) \o <<"-">> \o Pad2(m) \o <<"-">> \o Pad2(d) \o <<"T">>
        \o Pad2(H) \o <<":">> \o Pad2(M) \o <<":", "0", "0">>

\* parse_nr_datetime(s).isoformat()
parse_nr_datetime(s) ==
    LET parts == SplitOn(Strip(s), {"-", ":", ".", "/"}) IN
    IF \E i \in 1..Len(parts) : ~IsDigits(parts[i]) THEN Raise("ValueError")
    ELSE IF Len(parts) # 5 THEN Raise("ValueError")
    ELSE LET dd == ToInt(parts[1])
             mm == ToInt(parts[2])
             yy == ToInt(parts[3])
             HH == ToInt(parts[4])
             MM == ToInt(parts[5])
         IN  IF ~ValidDateTime(2000 + yy, mm, dd, HH, MM) THEN Raise("ValueError")
             ELSE Ok(IsoFormat(2000 + yy, mm, dd, HH, MM))

\* re.fullmatch(r"^(BEA) +NR:([^ ]+) +([0-9./:]+)$", head)
LegacyHeadMatch(head) ==
    IF ~StartsWith(head, Txt.BEA) THEN NoMatch
    ELSE LET a == RunEnd(head, 4, {" "}, TRUE)
             b == a + Len(Txt.NR)
             c == RunEnd(head, b, {" "}, FALSE)
             d == RunEnd(head, c, {" "}, TRUE)
             e == RunEnd(head, d, DtChars, TRUE)
         IN  IF a = 4 \/ ~OccursAt(head, a, Txt.NR) THEN NoMatch
             ELSE IF c = b \/ d = c \/ e = d \/ e <= Len(head) THEN NoMatch
             ELSE Match(<<Txt.BEA, SubSeq(head, b, c - 1), SubSeq(head, d, Len(head))>>)

\* The card payments of the old format
ParseLegacyBea(head, tail) ==
    LET name_and_card == Slice(tail, 0, 32)
        location      == Slice(tail, 32, 64)
        suffix        == SliceFrom(tail, 64)
        m             == LegacyHeadMatch(head)
        np            == Partition(name_and_card, Txt.PAS)
    IN  IF ~m.m THEN Raise("AttributeError")
        ELSE LET dt == parse_nr_datetime(m.g[3]) IN
             IF ~dt.ok THEN dt
             ELSE Ok((Key.type :> m.g[1]) @@ (Key.datetime :> dt.val) @@ (Key.NR :> m.g[2])
                     @@ (Key.Naam :> RStrip(np[1])) @@ (Key.card :> RStrip(np[3]))
                     @@ (Key.location :> RStrip(location)) @@ (Key.suffix :> RStrip(suffix)))

\* re.fullmatch(r"^NR:([^, ]+)[, ]+([0-9./:]+) *", nr_and_date)
NrDateMatch(x) ==
    IF ~StartsWith(x, Txt.NR) THEN NoMatch
    ELSE LET b == Len(Txt.NR) + 1
             c == RunEnd(x, b, {",", " "}, FALSE)
             d == RunEnd(x, c, {",", " "}, TRUE)
             e == RunEnd(x, d, DtChars, TRUE)
             f == RunEnd(x, e, {" "}, TRUE)
         IN  IF c = b \/ d = c \/ e = d \/ f <= Len(x) THEN NoMatch
             ELSE Match(<<SubSeq(x, b, c - 1), SubSeq(x, d, e - 1)>>)

\* The card payments and cash withdrawals of the newer format
ParseBea(head, tail) ==
    LET name_and_card == Slice(tail, 0, 32)
        nr_and_date   == Slice(tail, 32, 64)
        location      == Slice(tail, 64, 96)
        suffix        == SliceFrom(tail, 96)
        np            == Partition(name_and_card, Txt.PAS)
        m             == NrDateMatch(nr_and_date)
    IN  IF ~m.m THEN Raise("AttributeError")
        ELSE LET dt == parse_nr_datetime(m.g[2]) IN
             IF ~dt.ok THEN dt
             ELSE Ok((Key.type :> head) @@ (Key.datetime :> dt.val) @@ (Key.NR :> m.g[1])
                     @@ (Key.Naam :> RStrip(np[1])) @@ (Key.card :> RStrip(np[3]))
                     @@ (Key.location :> RStrip(location)) @@ (Key.suffix :> RStrip(suffix)))

\* Incassant|BIC|Naam|Machtiging|Omschrijving|IBAN|Kenmerk|Voor
SepaKeys ==
    {Key.Incassant, Key.BIC, Key.Naam, Key.Machtiging, Key.Omschrijving, Key.IBAN, Key.Kenmerk, Key.Voor}

\* re.fullmatch(r"^(Incassant|...|Voor): (.+)", thirtytwo), thirtytwo without
\* line break
SepaMatch(thirtytwo) ==
    LET ks == {k \in SepaKeys : /\ StartsWith(thirtytwo, k \o <<":", " ">>)
                                /\ Len(thirtytwo) > Len(k) + 2}
    IN  IF ks = {} THEN NoMatch
        ELSE LET k == CHOOSE k \in ks : TRUE IN
             Match(<<k, SubSeq(thirtytwo, Len(k) + 3, Len(thirtytwo))>>)

\* A band that continues a value appended after a space.
SepaAppend_Spaced(value, thirtytwo) == value \o <<" ">> \o thirtytwo

\* value + thirtytwo
SepaAppend(value, thirtytwo) == value \o thirtytwo

RECURSIVE SepaFold(_, _, _)
\* for thirtytwo in re.findall(r".{1,32}", tail): ...
SepaFold(bands, i, parts) ==
    IF i > Len(bands) THEN Ok(parts)
    ELSE LET m == SepaMatch(bands[i]) IN
         IF m.m THEN SepaFold(bands, i + 1, Append(parts, m.g))
         ELSE IF parts = <<>> THEN Raise("IndexError")
         ELSE SepaFold(bands, i + 1,
                       [parts EXCEPT ![Len(parts)] = <<@[1], SepaAppend(@[2], bands[i])>>])

\* A band with no field to continue is left out of the mapping.
ParseSepa_Lenient(head, tail) == LET f == SepaFold(Bands(tail), 1, <<>>) IN IF ~f.ok THEN Ok((Key.type :> head)) ELSE Ok(Update((Key.type :> head), DictOf([i \in 1..Len(f.val) |-> <<f.val[i][1], Strip(f.val[i][2])>>])))

\* The online transfers
ParseSepa(head, tail) ==
    LET f == SepaFold(Bands(tail), 1, <<>>) IN
    IF ~f.ok THEN f
    ELSE Ok(Update((Key.type :> head),
                   DictOf([i \in 1..Len(f.val) |-> <<f.val[i][1], Strip(f.val[i][2])>>])))

\* The if/elif chain of parse_description
Branch(s) ==
    LET head == HeadOf(s) IN
    IF StartsWith(s, <<"/">>) THEN "slash"
    ELSE IF StartsWith(s, Txt.ABN_AMRO_Bank) THEN "fees"
    ELSE IF StartsWith(head, Txt.BEA \o <<" ">>) THEN "legacy_bea"
    ELSE IF StartsWith(head, Txt.BEA \o <<",", " ">>)
            \/ StartsWith(head, Txt.GEA \o <<",", " ">>) THEN "bea"
    ELSE IF StartsWith(head, Txt.SEPA_) THEN "sepa"
    ELSE IF StartsWith(head, Txt.CREDIT_INTEREST) THEN "credit_interest"
    ELSE IF StartsWith(head, Txt.Basic_interest) THEN "basic_interest"
    ELSE IF \/ StartsWith(head, Txt.Maandpremie_)
            \/ StartsWith(head, Txt.Uitbetaling_pakketkorting)
            \/ StartsWith(head, Txt.PAKKETVERZ_POLISNR) THEN "insurance"
    ELSE "fallback"

parse_description(s) ==
    LET head == HeadOf(s)
        tail == TailOf(s)
        b    == Branch(s)
    IN  CASE b = "slash"           -> ParseSlash(s)
          [] b = "fees"            -> ParseFees(head, tail)
          [] b = "legacy_bea"      -> ParseLegacyBea(head, tail)
          [] b = "bea"             -> ParseBea(head, tail)
          [] b = "sepa"            -> ParseSepa(head, tail)
          [] b = "credit_interest" ->
                Ok((Key.type :> Txt.Basic_interest) @@ (Key.description :> tail))
          [] b = "basic_interest"  ->
                Ok((Key.type :> head) @@ (Key.description :> CollapseSpaces(tail)))
          [] b = "insurance"       ->
                Ok((Key.type :> Txt.legacy_insurance)
                   @@ (Key.description :> CollapseSpaces(head \o <<" ">> \o tail)))
          [] b = "fallback"        ->
                Ok((Key.type :> head) @@ (Key.description :> tail))

----------------------------------------------------------------------------
(* Inputs of parse_description *)

\* A slash-delimited argument is built from at most MaxPairs tag/value pairs.
MaxPairs == 3

\* A fixed-width argument is built from a head and at most MaxBands pieces.
MaxBands == 3

\* x followed by spaces up to the width of a band
Pad(x) == x \o [i \in 1..(BandLen - Len(x)) |-> " "]

SeqsUpTo(S, k) == UNION {[1..n -> S] : n \in 0..k}

\* Values of slash-delimited descriptions, after the doctests of parse_description
Val ==
    [ SEPA_OVERBOEKING |->
        <<"S", "E", "P", "A", " ", "O", "V", "E", "R", "B", "O", "E", "K", "I", "N", "G">>,
      NL00ZZZ |->
        <<"N", "L", "0", "0", "Z", "Z", "Z", "1", "2", "3", "4", "5", "6", "7", "8", "9", "0", "1", "2">>,
      Foo_Bar |->
        <<"F", "o", "o", "/", "B", "a", "r", " ", "B", ".", "V", ".", " ">>,
      FOO_BAR_dates |->
        <<"F", "O", "O", "/", "B", "A", "R", " ", "0", "1", "-", "0", "1", "-", "2", "3", "/", "3", "1", "-", "0", "1", "-", "2", "3", " ", "F", "o", "o", "b", "a", "r">>,
      A_B |->
        <<"A", "/", "/", "B", "/">>,
      EREF |->
        <<"0", "1", "-", "0", "1", "-", "2", "0", "2", "3", " ", "1", "3", ":", "3", "7", " ", "0", "1", "2", "3", "4", "5", "6", "7", "8", "9", "0", "1", "2", "3", "4", "5", " ", " ", " ", " ">>,
      NL01INGB |->
        <<"N", "L", "0", "1", "I", "N", "G", "B", "0", "1", "2", "3", "4", "5", "6", "7", "8", "9">>,
      INGBNL2A |->
        <<"I", "N", "G", "B", "N", "L", "2", "A">>,
      n99999999 |->
        <<"9", "9", "9", "9", "9", "9", "9", "9", " ", " ", " ", " ", " ", " ", " ", " ", " ", " ", " ", " ", " ", " ", " ">>,
      x_ID_y |->
        <<"x", "/", "I", "D", "/", "y">> ]

\* The tag/value pairs slash-delimited arguments are made of
SlashPairSet ==
    { <<Tag.TRTP, Val.SEPA_OVERBOEKING>>, <<Tag.TRTP, Txt.iDEAL>>, <<Tag.CSID, Val.NL00ZZZ>>,
      <<Tag.NAME, Val.Foo_Bar>>, <<Tag.REMI, Val.FOO_BAR_dates>>, <<Tag.MARF, Val.A_B>>,
      <<Tag.EREF, Val.EREF>>, <<Tag.IBAN, Val.NL01INGB>>, <<Tag.BIC, Val.INGBNL2A>>,
      <<Tag.ORDP, <<>>>>, <<Tag.ID, Val.n99999999>>, <<Tag.REMI, Val.x_ID_y>>, <<Tag.NAME, Tag.TRTP>> }

\* Heads of fixed-width descriptions, after the doctests of parse_description
Hd ==
    [ SEPA_iDEAL |->
        <<"S", "E", "P", "A", " ", "i", "D", "E", "A", "L", " ", " ", " ", " ", " ", " ", " ", " ", " ", " ", " ", " ", " ", " ", " ", " ", " ", " ", " ", " ", " ", " ">>,
      SEPA_Incasso |->
        <<"S", "E", "P", "A", " ", "I", "n", "c", "a", "s", "s", "o", " ", "a", "l", "g", "e", "m", "e", "e", "n", " ", "d", "o", "o", "r", "l", "o", "p", "e", "n", "d">>,
      SEPA_Overboeking |->
        <<"S", "E", "P", "A", " ", "O", "v", "e", "r", "b", "o", "e", "k", "i", "n", "g">>,
      ABN_NV |->
        <<"A", "B", "N", " ", "A", "M", "R", "O", " ", "B", "a", "n", "k", " ", "N", ".", "V", ".", " ", " ", " ", " ", " ", " ", " ", " ", " ", " ", " ", " ", " ", " ">>,
      ABN |->
        <<"A", "B", "N", " ", "A", "M", "R", "O", " ", "B", "a", "n", "k">>,
      BEA_ok |->
        <<"B", "E", "A", " ", " ", " ", "N", "R", ":", "A", "B", "0", "1", "2", "3", "4", "5", " ", "3", "1", ".", "1", "2", ".", "2", "1", "/", "1", "2", ".", "3", "4">>,
      BEA_leap |->
        <<"B", "E", "A", " ", " ", " ", "N", "R", ":", "A", "1", "B", "2", "3", "C", " ", " ", " ", "2", "9", ".", "0", "2", ".", "2", "4", "/", "0", "1", ":", "0", "2">>,
      BEA_noleap |->
        <<"B", "E", "A", " ", " ", " ", "N", "R", ":", "A", "1", "B", "2", "3", "C", " ", " ", " ", "2", "9", ".", "0", "2", ".", "2", "3", "/", "0", "1", ".", "0", "2">>,
      BEA_nodate |->
        <<"B", "E", "A", " ", " ", " ", "N", "R", ":", "A", "1", "B", "2", "3", "C", " ", " ", " ", "3", "1", ".", "1", "2", ".", "2", "1">>,
      BEA_nonr |->
        <<"B", "E", "A", " ", " ", " ", "N", "O", ":", "A", "1", "B", "2", "3", "C", " ", " ", " ", "3", "1", ".", "1", "2", ".", "2", "1", "/", "0", "1", ".", "0", "2">>,
      BEA_short |->
        <<"B", "E", "A", " ", "N", "R", ":", "X", " ", "1", ".", "1", ".", "1", ".", "1", ".", "1">>,
      GEA |->
        <<"G", "E", "A", ",", " ", "B", "e", "t", "a", "a", "l", "p", "a", "s", " ", " ", " ", " ", " ", " ", " ", " ", " ", " ", " ", " ", " ", " ", " ", " ", " ", " ">>,
      BEA_Google |->
        <<"B", "E", "A", ",", " ", "G", "o", "o", "g", "l", "e", " ", "P", "a", "y", " ", " ", " ", " ", " ", " ", " ", " ", " ", " ", " ", " ", " ", " ", " ", " ", " ">>,
      BEA_x |->
        <<"B", "E", "A", ",", " ", "x">>,
      CREDIT_INTEREST |->
        <<"C", "R", "E", "D", "I", "T", " ", "I", "N", "T", "E", "R", "E", "S", "T", " ", " ", " ", " ", " ", " ", " ", " ", " ", " ", " ", " ", " ", " ", " ", " ", " ">>,
      Basic_interest |->
        <<"B", "a", "s", "i", "c", " ", "i", "n", "t", "e", "r", "e", "s", "t", " ", " ", " ", " ", " ", " ", " ", " ", " ", " ", " ", " ", " ", " ", " ", " ", " ", " ">>,
      Maandpremie_juni |->
        <<"M", "a", "a", "n", "d", "p", "r", "e", "m", "i", "e", " ", "j", "u", "n", "i", " ", "2", "0", "2", "1", " ", " ", " ", " ", " ", " ", " ", " ", " ", " ", " ">>,
      Uitbetaling |->
        <<"U", "i", "t", "b", "e", "t", "a", "l", "i", "n", "g", " ", "p", "a", "k", "k", "e", "t", "k", "o", "r", "t", "i", "n", "g", " ", " ", " ", " ", " ", " ", " ">>,
      PAKKETVERZ |->
        <<"P", "A", "K", "K", "E", "T", "V", "E", "R", "Z", ".", " ", "P", "O", "L", "I", "S", "N", "R", ".", " ", " ", " ", "1", "2", "3", "4", "5", "6", "7", "8", "9">>,
      Maandpremie |->
        <<"M", "a", "a", "n", "d", "p", "r", "e", "m", "i", "e">>,
      zzz_format |->
        <<"z", "z", "z", " ", "t", "h", "i", "s", " ", "i", "s", " ", "n", "o", "t", " ", "a", " ", "k", "n", "o", "w", "n", " ", "f", "o", "r", "m", "a", "t">>,
      zzz |->
        <<"z", "z", "z", " ", " ", " ", " ", " ", " ", " ", " ", " ", " ", " ", " ", " ", " ", " ", " ", " ", " ", " ", " ", " ", " ", " ", " ", " ", " ", " ", " ", " ">>,
      empty |->
        <<>>,
      BEA_bare |->
        <<"B", "E", "A">>,
      SEPA_bare |->
        <<"S", "E", "P", "A", " ", " ", " ", " ", " ", " ", " ", " ", " ", " ", " ", " ", " ", " ", " ", " ", " ", " ", " ", " ", " ", " ", " ", " ", " ", " ", " ", " ">>,
      slash |->
        <<"/">>,
      slash_x |->
        <<"/", "x", "/", "T", "R", "T", "P", "/", "y">>,
      slash_TRTP |->
        <<"/", "T", "R", "T", "P">>,
      slash_odd |->
        <<"/", "T", "R", "T", "P", "/", "a", "/", "N", "A", "M", "E">> ]

\* 32-character bands of fixed-width descriptions, after the doctests of
\* parse_description
Bd ==
    [ IBAN |->
        <<"I", "B", "A", "N", ":", " ", "N", "L", "0", "1", "R", "A", "B", "O", "0", "1", "2", "3", "4", "5", "6", "7", "8", "9", " ", " ", " ", " ", " ", " ", " ", " ">>,
      Naam |->
        <<"N", "a", "a", "m", ":", " ", "N", "E", "T", "F", "L", "I", "X", " ", "I", "N", "T", "E", "R", "N", "A", "T", "I", "O", "N", "A", "L", " ", "B", ".", "V", ".">>,
      Omschrijving |->
        <<"O", "m", "s", "c", "h", "r", "i", "j", "v", "i", "n", "g", ":", " ", "N", "e", "t", "f", "l", "i", "x", " ", "M", "o", "n", "t", "h", "l", "y", " ", "S", "u">>,
      bscription |->
        <<"b", "s", "c", "r", "i", "p", "t", "i", "o", "n", " ", " ", " ", " ", " ", " ", " ", " ", " ", " ", " ", " ", " ", " ", " ", " ", " ", " ", " ", " ", " ", " ">>,
      Blank |->
        <<" ", " ", " ", " ", " ", " ", " ", " ", " ", " ", " ", " ", " ", " ", " ", " ", " ", " ", " ", " ", " ", " ", " ", " ", " ", " ", " ", " ", " ", " ", " ", " ">>,
      Voor |->
        <<"V", "o", "o", "r", ":", " ", " ", "J", " ", "S", "M", "I", "T", "H">>,
      Credit_Card |->
        <<"C", "r", "e", "d", "i", "t", " ", "C", "a", "r", "d", " ", " ", " ", " ", " ", " ", " ", " ", " ", " ", " ", " ", " ", " ", " ", " ", " ", "1", ",", "7", "0">>,
      Debit_card |->
        <<"D", "e", "b", "i", "t", " ", "c", "a", "r", "d", " ", " ", " ", " ", " ", " ", " ", " ", " ", " ", " ", " ", " ", " ", " ", " ", " ", "-", "1", ".", "4", "0">>,
      type_fee |->
        <<"t", "y", "p", "e", " ", " ", " ", " ", " ", " ", " ", " ", " ", " ", " ", " ", " ", " ", " ", " ", " ", " ", " ", " ", " ", " ", " ", " ", "9", ",", "9", "9">>,
      Basic_Package |->
        <<"B", "a", "s", "i", "c", " ", "P", "a", "c", "k", "a", "g", "e", " ", "2", ",", "9", "5", " ", " ", " ", " ", " ", " ", " ", " ", " ", " ", " ", " ", " ", " ">>,
      Hema |->
        <<"H", "e", "m", "a", " ", "E", "V", "1", "2", "3", ",", "P", "A", "S", "4", "5", "6", " ", " ", " ", " ", " ", " ", " ", " ", " ", " ", " ", " ", " ", " ", " ">>,
      ZAANDAM |->
        <<"Z", "A", "A", "N", "D", "A", "M", " ", " ", " ", " ", " ", " ", " ", " ", " ", " ", " ", " ", " ", " ", " ", " ", " ", " ", " ", " ", " ", " ", " ", " ", " ">>,
      TERUGBOEKING |->
        <<"T", "E", "R", "U", "G", "B", "O", "E", "K", "I", "N", "G", "-", "B", "E", "A", "-", "T", "R", "A", "N", "S", "A", "C", "T", "I", "E">>,
      CCV |->
        <<"C", "C", "V", " ", "T", "R", "A", "V", "E", "R", "S", "E", " ", "P", "1", " ", " ", " ", " ", " ", " ", " ", " ", " ", " ", " ", " ", " ", " ", " ", " ", " ">>,
      IKEA |->
        <<"I", "K", "E", "A", " ", "A", "m", "s", "t", "e", "r", "d", "a", "m", ",", "P", "A", "S", "1", "2", "3", " ", " ", " ", " ", " ", " ", " ", " ", " ", " ", " ">>,
      NR_comma |->
        <<"N", "R", ":", "0", "A", "B", "C", "0", "D", ",", " ", "0", "1", ".", "0", "2", ".", "2", "3", "/", "1", "4", ":", "1", "5", " ", " ", " ", " ", " ", " ", " ">>,
      NR_space |->
        <<"N", "R", ":", "7", "6", "5", "4", "3", "2", "1", "0", " ", "2", "2", ".", "0", "1", ".", "2", "3", "/", "2", "2", ".", "2", "3", " ", " ", " ", " ", " ", " ">>,
      NR_baddate |->
        <<"N", "R", ":", "0", "A", "B", "C", "0", "D", ",", " ", "3", "1", ".", "0", "2", ".", "2", "3", "/", "1", "4", ":", "1", "5", " ", " ", " ", " ", " ", " ", " ">>,
      AMSTERDAM |->
        <<"A", "M", "S", "T", "E", "R", "D", "A", "M", " ", " ", " ", " ", " ", " ", " ", " ", " ", " ", " ", " ", " ", " ", " ", " ", " ", " ", " ", " ", " ", " ", " ", "T", "E", "R", "U", "G", "B", "O", "E", "K", "I", "N", "G", " ", "B", "E", "A", "-", "T", "R", "A", "N", "S", "A", "C", "T", "I", "E">>,
      Eindhoven |->
        <<"E", "i", "n", "d", "h", "o", "v", "e", "n", ",", " ", "N", "o", " ", " ", " ", " ", " ", " ", " ", " ", " ", " ", " ", " ", " ", " ", " ", " ", " ", " ", " ">>,
      over |->
        <<"o", "v", "e", "r", " ", "t", "h", "e", " ", "p", "e", "r", "i", "o", "d", " ", "f", "r", "o", "m", " ", " ", " ", " ", " ", " ", " ", " ", " ", " ", " ", " ">>,
      dates |->
        <<"3", "1", "-", "1", "2", "-", "2", "0", "2", "2", " ", " ", "t", "o", " ", " ", "3", "1", "-", "1", "2", "-", "2", "0", "2", "3">>,
      van |->
        <<"v", "a", "n", " ", "v", "e", "r", "z", "e", "k", "e", "r", "i", "n", "g", " ", "1", "2", "3", "4", "5", "6", "7", "8", "9", " ", " ", " ", " ", " ", " ", " ">> ]

\* The heads and pieces of each family of fixed-width descriptions: the
\* online transfers, the bank's fees, the card payments in the old format
\* and in the new one, and the interest, the insurance and the texts that
\* match nothing
Families ==
    { [heads |-> {Hd.SEPA_iDEAL, Hd.SEPA_Incasso, Hd.SEPA_Overboeking},
       bands |-> {Bd.IBAN, Bd.Naam, Bd.Omschrijving, Bd.bscription, Bd.Blank,
                 Bd.Voor}],
      [heads |-> {Hd.ABN_NV, Hd.ABN},
       bands |-> {Bd.Credit_Card, Bd.Debit_card, Bd.type_fee, Bd.Basic_Package,
                 Bd.Blank}],
      [heads |-> {Hd.BEA_ok, Hd.BEA_leap, Hd.BEA_noleap, Hd.BEA_nodate, Hd.BEA_nonr,
                  Hd.BEA_short},
       bands |-> {Bd.Hema, Bd.ZAANDAM, Bd.TERUGBOEKING, Bd.CCV}],
      [heads |-> {Hd.GEA, Hd.BEA_Google, Hd.BEA_x},
       bands |-> {Bd.IKEA, Bd.NR_comma, Bd.NR_space, Bd.NR_baddate, Bd.AMSTERDAM,
                 Bd.Eindhoven}],
      [heads |-> {Hd.CREDIT_INTEREST, Hd.Basic_interest, Hd.Maandpremie_juni,
                  Hd.Uitbetaling, Hd.PAKKETVERZ, Hd.Maandpremie,
                  Hd.zzz_format, Hd.zzz, Hd.empty, Hd.BEA_bare,
                  Hd.SEPA_bare, Hd.slash, Hd.slash_x, Hd.slash_TRTP,
                  Hd.slash_odd},
       bands |-> {Bd.over, Bd.dates, Bd.Blank, Bd.van}] }

ParseGens ==
    { [kind |-> "slash", head |-> <<>>, items |-> ps] : ps \in SeqsUpTo(SlashPairSet, MaxPairs) }
        \cup UNION { { [kind |-> "fixed", head |-> h, items |-> bs] :
                          h \in f.heads, bs \in SeqsUpTo(f.bands, MaxBands) } : f \in Families }

\* "/K1/V1/K2/V2..." for the pairs <<K1, V1>>, <<K2, V2>>, ...
SlashText(pairs) ==
    Concat([i \in 1..Len(pairs) |-> <<"/">> \o pairs[i][1] \o <<"/">> \o pairs[i][2]])

\* The argument a generator stands for
Build(gen) ==
    IF gen.kind = "slash" THEN SlashText(gen.items)
    ELSE gen.head \o Concat(gen.items)

ParseInit ==
    /\ pd_gen \in ParseGens
    /\ pd_s = Build(pd_gen)
    /\ pd_ret = Pending
    /\ pd_pc = "call"

ParseCall ==
    /\ pd_pc = "call"
    /\ pd_ret' = parse_description(pd_s)
    /\ pd_pc' = "done"
    /\ UNCHANGED <<pd_gen, pd_s, rjVars, tsvVars, eqVars, dsVars, mfVars, cdVars, pgVars, vsVars>>

----------------------------------------------------------------------------
(* Transaction, filter_comments and read_tsv *)

\* Python's None
None == <<>>

\* A value held where None may be held
Some(x) == <<x>>

RECURSIVE Pow10(_)
Pow10(n) == IF n = 0 THEN 1 ELSE 10 * Pow10(n - 1)

\* The characters int() and Decimal() take as a sign
SignSet == {"+", "-"}

\* s without a leading sign
Unsigned(s) == IF s # <<>> /\ s[1] \in SignSet THEN SubSeq(s, 2, Len(s)) ELSE s

\* -1 for a leading minus sign, 1 otherwise
SignOf(s) == IF s # <<>> /\ s[1] = "-" THEN -1 ELSE 1

\* int(s): surrounding whitespace is dropped, then an optional sign and a
\* run of decimal digits; anything else raises ValueError.
IntParse(s) ==
    LET t == Strip(s)
        u == Unsigned(t)
    IN  IF IsDigits(u) THEN Ok(SignOf(t) * ToInt(u)) ELSE Raise("ValueError")

\* Decimal(s) for a string of sign, digits and decimal point: the value is
\* coef / 10^scale.  Anything else raises InvalidOperation.
DecimalParse(s) ==
    LET t == Strip(s)
        u == Unsigned(t)
        p == SplitOn(u, {"."})
        int == p[1]
        frac == IF Len(p) = 2 THEN p[2] ELSE <<>>
        digits == int \o frac
    IN  IF Len(p) <= 2 /\ IsDigits(digits)
        THEN Ok([coef |-> SignOf(t) * ToInt(digits), scale |-> Len(frac)])
        ELSE Raise("InvalidOperation")

\* Decimal == Decimal compares the numbers, not their notations
DecimalEq(x, y) == x.coef * Pow10(y.scale) = y.coef * Pow10(x.scale)

\* Currency(code)
Currency(code) == [code |-> code]

\* Currency == Currency
CurrencyEq(a, b) == a.code = b.code

\* Money(amount, currency) of a Decimal amount
Money(amount, currency) == [amount |-> amount, currency |-> currency]

\* Money == Money: the same number in the same currency
MoneyEq(a, b) == DecimalEq(a.amount, b.amount) /\ CurrencyEq(a.currency, b.currency)

\* date(y, m, d)
Date(y, m, d) == [y |-> y, m |-> m, d |-> d]

NonZeroDigits == DigitSet \ {"0"}

\* The length of the text "%m" matches at the start of r under its k-th
\* alternative, 1[0-2] | 0[1-9] | [1-9]; 0 without a match.
MonthAlt(r, k) ==
    IF k = 1 THEN (IF Len(r) >= 2 /\ r[1] = "1" /\ r[2] \in {"0", "1", "2"} THEN 2 ELSE 0)
    ELSE IF k = 2 THEN (IF Len(r) >= 2 /\ r[1] = "0" /\ r[2] \in NonZeroDigits THEN 2 ELSE 0)
    ELSE (IF Len(r) >= 1 /\ r[1] \in NonZeroDigits THEN 1 ELSE 0)

\* The length of the text "%d" matches at the start of r:
\* 3[0-1] | [1-2]\d | 0[1-9] | [1-9] | " "[1-9]; 0 without a match.
DayLen(r) ==
    IF Len(r) >= 2 /\ r[1] = "3" /\ r[2] \in {"0", "1"} THEN 2
    ELSE IF Len(r) >= 2 /\ r[1] \in {"1", "2"} /\ r[2] \in DigitSet THEN 2
    ELSE IF Len(r) >= 2 /\ r[1] = "0" /\ r[2] \in NonZeroDigits THEN 2
    ELSE IF Len(r) >= 1 /\ r[1] \in NonZeroDigits THEN 1
    ELSE IF Len(r) >= 2 /\ r[1] = " " /\ r[2] \in NonZeroDigits THEN 2
    ELSE 0

\* datetime.strptime(s, "%Y%m%d").date(): four digits of year, then the first
\* alternative for the month that leaves a day to match; text left over, or a
\* day the month does not have, raises ValueError.
DateParse(s) ==
    IF ~(Len(s) >= 4 /\ IsDigits(SubSeq(s, 1, 4))) THEN Raise("ValueError")
    ELSE
      LET r == SubSeq(s, 5, Len(s))
          fits(k) == MonthAlt(r, k) > 0 /\ DayLen(SubSeq(r, MonthAlt(r, k) + 1, Len(r))) > 0
      IN  IF ~ \E k \in 1..3 : fits(k) THEN Raise("ValueError")
          ELSE
            LET k == CHOOSE k \in 1..3 : fits(k) /\ \A j \in 1..(k - 1) : ~fits(j)
                ml == MonthAlt(r, k)
                dl == DayLen(SubSeq(r, ml + 1, Len(r)))
                y == ToInt(SubSeq(s, 1, 4))
                m == ToInt(SubSeq(r, 1, ml))
                d == ToInt(Strip(SubSeq(r, ml + 1, ml + dl)))
            IN  IF ml + dl = Len(r) /\ 1 <= y /\ d <= DaysInMonth(y, m)
                THEN Ok(Date(y, m, d))
                ELSE Raise("ValueError")

\* The dataclass Transaction: its generated __init__ followed by __post_init__
Transaction(account, date, ord, currency, amount, start_saldo, end_saldo, description) ==
    [ account     |-> account,
      date        |-> date,
      order       |-> ord,
      currency    |-> currency,
      amount      |-> amount,
      start_saldo |-> start_saldo,
      end_saldo   |-> end_saldo,
      description |-> description,
      _desc_str   |-> None,
      _desc       |-> None ]

\* Transaction.__eq__, comparing order as well
__eq___WithOrder(self, other) ==
    /\ self.account = other.account
    /\ self.date = other.date
    /\ self.order = other.order
    /\ CurrencyEq(self.currency, other.currency)
    /\ MoneyEq(self.amount, other.amount)
    /\ MoneyEq(self.start_saldo, other.start_saldo)
    /\ MoneyEq(self.end_saldo, other.end_saldo)

\* Transaction.__eq__
__eq__(self, other) ==
    /\ self.account = other.account
    /\ self.date = other.date
    /\ CurrencyEq(self.currency, other.currency)
    /\ MoneyEq(self.amount, other.amount)
    /\ MoneyEq(self.start_saldo, other.start_saldo)
    /\ MoneyEq(self.end_saldo, other.end_saldo)

\* filter_comments: the line is a comment line
IsComment(line) == StartsWith(LStrip(line), <<"#">>)

\* filter_comments: the line is an empty line
IsBlank(line) == Strip(line) = <<>>

\* The columns of a TAB file, in order
HEADERS ==
    << "accountNumber", "mutationcode", "transactiondate", "startsaldo",
       "endsaldo", "valuedate", "amount", "description" >>

\* The position of a column in a row
Col(name) == CHOOSE i \in 1..Len(HEADERS) : HEADERS[i] = name

\* csv.reader(..., dialect="excel-tab") on one line with no quote character:
\* the line terminator is dropped and the rest is cut at the tabs.
CsvFields(line) ==
    LET n == Len(line)
        cut == IF n >= 2 /\ line[n - 1] = "\r" /\ line[n] = "\n" THEN n - 2
               ELSE IF n >= 1 /\ line[n] \in {"\n", "\r"} THEN n - 1
               ELSE n
    IN  SplitOn(SubSeq(line, 1, cut), {"\t"})

\* RowTuple(*r) takes exactly one value for each of the HEADERS
RowTupleOk(r) == Len(r) = Len(HEADERS)

\* read_tsv with the row's position in the file for its order
NextOrder_LineNumber(ord, at) == at

\* read_tsv: order += 1
NextOrder(ord, at) == ord + 1

\* read_tsv: Money(x.replace(",", "."), cur)
MoneyParse(x, cur) ==
    LET d == DecimalParse(Replace(x, ",", ".")) IN
    IF d.ok THEN Ok(Money(d.val, cur)) ELSE d

\* read_tsv keeping the description of the row as it is, not rejoined
BuildTransaction_RawDescription(r, ord) ==
    LET cur == Currency(r[Col("mutationcode")])
        account == IntParse(r[Col("accountNumber")])
        date == DateParse(r[Col("transactiondate")])
        amount == MoneyParse(r[Col("amount")], cur)
        start_saldo == MoneyParse(r[Col("startsaldo")], cur)
        end_saldo == MoneyParse(r[Col("endsaldo")], cur)
    IN  IF ~account.ok THEN account
        ELSE IF ~date.ok THEN date
        ELSE IF ~amount.ok THEN amount
        ELSE IF ~start_saldo.ok THEN start_saldo
        ELSE IF ~end_saldo.ok THEN end_saldo
        ELSE Ok(Transaction(account.val, date.val, ord, cur, amount.val,
                            start_saldo.val, end_saldo.val, r[Col("description")]))

\* read_tsv: the Transaction built from the row r, or the exception of the
\* first argument that cannot be built (the arguments are evaluated in the
\* order they are written).
BuildTransaction(r, ord) ==
    LET cur == Currency(r[Col("mutationcode")])
        account == IntParse(r[Col("accountNumber")])
        date == DateParse(r[Col("transactiondate")])
        amount == MoneyParse(r[Col("amount")], cur)
        start_saldo == MoneyParse(r[Col("startsaldo")], cur)
        end_saldo == MoneyParse(r[Col("endsaldo")], cur)
        description == rejoin_description(r[Col("description")])
    IN  IF ~account.ok THEN account
        ELSE IF ~date.ok THEN date
        ELSE IF ~amount.ok THEN amount
        ELSE IF ~start_saldo.ok THEN start_saldo
        ELSE IF ~end_saldo.ok THEN end_saldo
        ELSE IF ~description.ok THEN description
        ELSE Ok(Transaction(account.val, date.val, ord, cur, amount.val,
                            start_saldo.val, end_saldo.val, description.val))

\* Lines of a TAB file: the empty and comment lines of the doctest of
\* filter_comments, two rows, a row with a column missing and a row whose
\* description ends before its first boundary.
Ln ==
    [ empty |->
        <<>>,
      spaces |->
        <<" ", " ", " ">>,
      comment |->
        <<"#", " ", "f", "o", "o">>,
      comment_indented |->
        <<" ", " ", " ", " ", " ", "#", " ", "f", "o", "o">>,
      row_sepa |->
        <<"1", "2", "3", "4", "5", "6", "7", "8", "9", "\t", "E", "U", "R", "\t", "2", "0", "2", "4", "0", "1", "0", "1", "\t", "1", "1", "2", ",", "3", "4", "\t", "1", "0", "0", ",", "0", "0", "\t", "2", "0", "2", "4", "0", "1", "0", "1", "\t", "-", "1", "2", ",", "3", "4", "\t", "S", "E", "P", "A", " ", "O", "v", "e", "r", "b", "o", "e", "k", "i", "n", "g", " ", " ", " ", " ", " ", " ", " ", " ", " ", " ", " ", " ", " ", " ", " ", " ", " ", "I", "B", "A", "N", ":", " ", "N", "L", "0", "1", "A", "B", "N", "A", "0", "1", "2", "3", "4", "5", "6", "7", "8", "9", " ", " ", " ", " ", " ", " ", " ", " ", "B", "I", "C", ":", " ", "A", "B", "N", "A", "N", "L", "2", "A">>,
      row_slash |->
        <<"1", "2", "3", "4", "5", "6", "7", "8", "9", "\t", "E", "U", "R", "\t", "2", "0", "2", "4", "0", "1", "0", "2", "\t", "1", "0", "0", ",", "0", "0", "\t", "1", "5", "0", ",", "0", "0", "\t", "2", "0", "2", "4", "0", "1", "0", "2", "\t", "5", "0", ",", "0", "0", "\t", "/", "T", "R", "T", "P", "/", "S", "E", "P", "A", " ", "O", "V", "E", "R", "B", "O", "E", "K", "I", "N", "G", "/", "I", "B", "A", "N", "/", "N", "L", "0", "1", "I", "N", "G", "B", "0", "1", "2", "3", "4", "5", "6", "7", "8", "9", "\n">>,
      row_short |->
        <<"1", "2", "3", "4", "5", "6", "7", "8", "9", "\t", "E", "U", "R", "\t", "2", "0", "2", "4", "0", "1", "0", "3", "\t", "1", "5", "0", ",", "0", "0", "\t", "1", "4", "0", ",", "0", "0", "\t", "2", "0", "2", "4", "0", "1", "0", "3", "\t", "-", "1", "0", ",", "0", "0">>,
      row_cut |->
        <<"1", "2", "3", "4", "5", "6", "7", "8", "9", "\t", "E", "U", "R", "\t", "2", "0", "2", "4", "0", "1", "0", "4", "\t", "1", "5", "0", ",", "0", "0", "\t", "1", "4", "0", ",", "0", "0", "\t", "2", "0", "2", "4", "0", "1", "0", "4", "\t", "-", "1", "0", ",", "0", "0", "\t", "S", "E", "P", "A", " ", "O", "v", "e", "r", "b", "o", "e", "k", "i", "n", "g">> ]

LineSet == {Ln.empty, Ln.spaces, Ln.comment, Ln.comment_indented, Ln.row_sepa, Ln.row_slash, Ln.row_short, Ln.row_cut}

MaxLines == 4

TsvInit ==
    /\ file \in SeqsUpTo(LineSet, MaxLines)
    /\ lineno = 1
    /\ order = 0
    /\ out = <<>>
    /\ tsv_err = "none"
    /\ tsv_pc = "reading"

\* filter_comments: a comment line is passed over
SkipComment ==
    /\ tsv_pc = "reading" /\ lineno <= Len(file)
    /\ IsComment(file[lineno])
    /\ lineno' = lineno + 1
    /\ UNCHANGED <<file, order, out, tsv_err, tsv_pc, rjVars, pdVars, eqVars, dsVars, mfVars, cdVars, pgVars, vsVars>>

\* filter_comments: an empty line is passed over
SkipBlank ==
    /\ tsv_pc = "reading" /\ lineno <= Len(file)
    /\ ~IsComment(file[lineno]) /\ IsBlank(file[lineno])
    /\ lineno' = lineno + 1
    /\ UNCHANGED <<file, order, out, tsv_err, tsv_pc, rjVars, pdVars, eqVars, dsVars, mfVars, cdVars, pgVars, vsVars>>

\* read_tsv: a row is read and its Transaction is yielded
YieldRow ==
    /\ tsv_pc = "reading" /\ lineno <= Len(file)
    /\ ~IsComment(file[lineno]) /\ ~IsBlank(file[lineno])
    /\ LET r == CsvFields(file[lineno]) IN
       /\ RowTupleOk(r)
       /\ LET t == BuildTransaction(r, NextOrder(order, lineno)) IN
          /\ t.ok
          /\ out' = Append(out, t.val)
       /\ order' = NextOrder(order, lineno)
    /\ lineno' = lineno + 1
    /\ UNCHANGED <<file, tsv_err, tsv_pc, rjVars, pdVars, eqVars, dsVars, mfVars, cdVars, pgVars, vsVars>>

\* read_tsv that hands over its Transactions at the end only: an exception
\* leaves the consumer with none
RowRaises_NothingDelivered ==
    /\ tsv_pc = "reading" /\ lineno <= Len(file)
    /\ ~IsComment(file[lineno]) /\ ~IsBlank(file[lineno])
    /\ LET r == CsvFields(file[lineno]) IN
       IF ~RowTupleOk(r)
       THEN /\ tsv_err' = "TypeError"
            /\ order' = order
       ELSE LET t == BuildTransaction(r, NextOrder(order, lineno)) IN
            /\ ~t.ok
            /\ tsv_err' = t.err
            /\ order' = NextOrder(order, lineno)
    /\ lineno' = lineno + 1
    /\ tsv_pc' = "failed"
    /\ out' = <<>>
    /\ UNCHANGED <<file, rjVars, pdVars, eqVars, dsVars, mfVars, cdVars, pgVars, vsVars>>

\* read_tsv: a row is read and an exception leaves the generator
RowRaises ==
    /\ tsv_pc = "reading" /\ lineno <= Len(file)
    /\ ~IsComment(file[lineno]) /\ ~IsBlank(file[lineno])
    /\ LET r == CsvFields(file[lineno]) IN
       IF ~RowTupleOk(r)
       THEN /\ tsv_err' = "TypeError"
            /\ order' = order
       ELSE LET t == BuildTransaction(r, NextOrder(order, lineno)) IN
            /\ ~t.ok
            /\ tsv_err' = t.err
            /\ order' = NextOrder(order, lineno)
    /\ lineno' = lineno + 1
    /\ tsv_pc' = "failed"
    /\ UNCHANGED <<file, out, rjVars, pdVars, eqVars, dsVars, mfVars, cdVars, pgVars, vsVars>>

\* read_tsv: the lines are exhausted and the generator returns
EndOfFile ==
    /\ tsv_pc = "reading" /\ lineno > Len(file)
    /\ tsv_pc' = "done"
    /\ UNCHANGED <<file, lineno, order, out, tsv_err, rjVars, pdVars, eqVars, dsVars, mfVars, cdVars, pgVars, vsVars>>

----------------------------------------------------------------------------
(* Transactions to compare: the sample_data of the doctest of __eq__, and
   one more amount that writes the first one with a trailing zero *)

Smp ==
    [ amt_m12_34 |->
        <<"-", "1", "2", ".", "3", "4">>,
      amt_12_34 |->
        <<"1", "2", ".", "3", "4">>,
      amt_m12_340 |->
        <<"-", "1", "2", ".", "3", "4", "0">>,
      amt_112_34 |->
        <<"1", "1", "2", ".", "3", "4">>,
      amt_100_00 |->
        <<"1", "0", "0", ".", "0", "0">>,
      cur_EUR |->
        <<"E", "U", "R">>,
      cur_USD |->
        <<"U", "S", "D">>,
      desc_SEPA_whatever |->
        <<"S", "E", "P", "A", " ", "w", "h", "a", "t", "e", "v", "e", "r">>,
      desc_TRTP_whatever |->
        <<"/", "T", "R", "T", "P", "/", "S", "E", "P", "A", " ", "w", "h", "a", "t", "e", "v", "e", "r", "/">> ]

\* Money("12.34", "EUR") of the doctest
MoneyOf(x, code) == Money(DecimalParse(x).val, Currency(code))

sample_data ==
    [ account     |-> {1234, 5678},
      date        |-> {Date(2024, 1, 1), Date(2024, 1, 2)},
      order       |-> {1, 2},
      currency    |-> {Currency(Smp.cur_EUR), Currency(Smp.cur_USD)},
      amount      |-> {MoneyOf(Smp.amt_m12_34, Smp.cur_EUR), MoneyOf(Smp.amt_12_34, Smp.cur_USD),
                       MoneyOf(Smp.amt_m12_340, Smp.cur_EUR)},
      start_saldo |-> {MoneyOf(Smp.amt_112_34, Smp.cur_EUR), MoneyOf(Smp.amt_100_00, Smp.cur_USD)},
      end_saldo   |-> {MoneyOf(Smp.amt_100_00, Smp.cur_EUR), MoneyOf(Smp.amt_112_34, Smp.cur_USD)},
      description |-> {Smp.desc_SEPA_whatever, Smp.desc_TRTP_whatever} ]

\* Transaction(**fields) for every choice of the fields
SampleTransactions ==
    { Transaction(ac, dt, od, cu, am, ss, es, ds) :
        ac \in sample_data.account, dt \in sample_data.date,
        od \in sample_data.order, cu \in sample_data.currency,
        am \in sample_data.amount, ss \in sample_data.start_saldo,
        es \in sample_data.end_saldo, ds \in sample_data.description }

EqInit ==
    /\ eq_a \in SampleTransactions
    /\ eq_b \in SampleTransactions
    /\ eq_ret = FALSE
    /\ eq_pc = "call"

\* a == b
EqCall ==
    /\ eq_pc = "call"
    /\ eq_ret' = __eq__(eq_a, eq_b)
    /\ eq_pc' = "done"
    /\ UNCHANGED <<eq_a, eq_b, rjVars, pdVars, tsvVars, dsVars, mfVars, cdVars, pgVars, vsVars>>

----------------------------------------------------------------------------
(* Transaction.desc *)

\* A str object is known by a number: two objects may hold equal text and
\* still be two objects, which is what "is" tells apart.  Object 0 is the
\* description read_tsv gave the Transaction; the others are the objects a
\* caller may assign to description, two of them with the same text.
DescObjects ==
    << Pad(Hd.SEPA_Overboeking) \o Bd.IBAN \o Bd.Naam,
       Pad(Hd.SEPA_Overboeking) \o Bd.IBAN \o Bd.Naam,
       SlashText(<< <<Tag.TRTP, Val.SEPA_OVERBOEKING>>, <<Tag.IBAN, Val.NL01INGB>> >>),
       SlashText(<< <<Tag.IBAN, Val.NL01INGB>> >>),
       Pad(Hd.SEPA_Overboeking) \o Bd.bscription >>

\* Transaction.desc with no cache: every access decodes
desc_NoCache(t, ref) ==
    LET r == parse_description(t.description)
        t1 == [t EXCEPT !._desc_str = Some(t.description)]
        ref1 == [ref EXCEPT !._desc_str = Some(ref.description)]
    IN  IF r.ok
        THEN [t |-> [t1 EXCEPT !._desc = Some(r.val)], ref |-> ref1,
              ret |-> Ok(Some(r.val)), parsed |-> TRUE]
        ELSE [t |-> t1, ref |-> ref1, ret |-> r, parsed |-> TRUE]

\* Transaction.desc: the Transaction and the references after the access,
\* what the access returned or raised, and whether parse_description was
\* called.  _desc_str is assigned before parse_description is called, so it
\* stays assigned when the call raises.
desc(t, ref) ==
    IF ref._desc_str = Some(ref.description)
    THEN [t |-> t, ref |-> ref, ret |-> Ok(t._desc), parsed |-> FALSE]
    ELSE
      LET r == parse_description(t.description)
          t1 == [t EXCEPT !._desc_str = Some(t.description)]
          ref1 == [ref EXCEPT !._desc_str = Some(ref.description)]
      IN  IF r.ok
          THEN [t |-> [t1 EXCEPT !._desc = Some(r.val)], ref |-> ref1,
                ret |-> Ok(Some(r.val)), parsed |-> TRUE]
          ELSE [t |-> t1, ref |-> ref1, ret |-> r, parsed |-> TRUE]

MaxOps == 5

\* Rows of a TAB file to read the Transaction from
DescLines == {Ln.row_sepa, Ln.row_slash, Ln.row_cut}

\* Nothing accessed since description was assigned
NoHistory(last) == [since |-> 0, late |-> 0, first |-> Pending, accesses |-> 0, last |-> last]

DescInit ==
    /\ ds_line \in DescLines
    /\ ds_t = None
    /\ ds_ref = None
    /\ ds_calls = 0
    /\ ds_ret = Pending
    /\ ds_hist = NoHistory("none")
    /\ ds_ops = 0
    /\ ds_pc = "read"

\* read_tsv over the one row: the Transaction is yielded or an exception raised
DescRead ==
    /\ ds_pc = "read"
    /\ LET r == CsvFields(ds_line)
           t == IF RowTupleOk(r) THEN BuildTransaction(r, NextOrder(0, 1))
                ELSE Raise("TypeError")
       IN  IF t.ok
           THEN /\ ds_t' = t.val
                /\ ds_ref' = [description |-> 0, _desc_str |-> None]
                /\ ds_pc' = "live"
                /\ ds_ret' = ds_ret
           ELSE /\ ds_t' = ds_t
                /\ ds_ref' = ds_ref
                /\ ds_pc' = "failed"
                /\ ds_ret' = t
    /\ ds_hist' = NoHistory("read")
    /\ UNCHANGED <<ds_line, ds_calls, ds_ops, rjVars, pdVars, tsvVars, eqVars, mfVars, cdVars, pgVars, vsVars>>

\* t.desc
AccessDesc ==
    /\ ds_pc = "live" /\ ds_ops < MaxOps
    /\ \E a \in {desc(ds_t, ds_ref)} :
       /\ ds_t' = a.t
       /\ ds_ref' = a.ref
       /\ ds_ret' = a.ret
       /\ ds_calls' = ds_calls + (IF a.parsed THEN 1 ELSE 0)
       /\ ds_hist' = [ since    |-> ds_hist.since + 1,
                       late     |-> ds_hist.late
                                      + (IF a.parsed /\ ds_hist.since >= 1 THEN 1 ELSE 0),
                       first    |-> IF ds_hist.since = 0 THEN a.ret ELSE ds_hist.first,
                       accesses |-> ds_hist.accesses + 1,
                       last     |-> "access" ]
    /\ ds_ops' = ds_ops + 1
    /\ UNCHANGED <<ds_line, ds_pc, rjVars, pdVars, tsvVars, eqVars, mfVars, cdVars, pgVars, vsVars>>

\* t.description = x, for a str object x
AssignDescription ==
    /\ ds_pc = "live" /\ ds_ops < MaxOps
    /\ \E x \in 0..Len(DescObjects) :
          /\ x = 0 => ds_ref.description = 0
          /\ ds_t' = [ds_t EXCEPT !.description =
                          IF x = 0 THEN ds_t.description ELSE DescObjects[x]]
          /\ ds_ref' = [ds_ref EXCEPT !.description = x]
    /\ ds_hist' = [NoHistory("assign") EXCEPT !.accesses = ds_hist.accesses]
    /\ ds_ops' = ds_ops + 1
    /\ UNCHANGED <<ds_line, ds_calls, ds_ret, ds_pc, rjVars, pdVars, tsvVars, eqVars, mfVars, cdVars, pgVars, vsVars>>

----------------------------------------------------------------------------
(* money_format *)

RECURSIVE IntStr(_)
\* The decimal digits of n >= 0, as "{:f}" writes an integer part
IntStr(n) ==
    IF n < 10 THEN <<Digits[n + 1]>>
    ELSE IntStr(n \div 10) \o <<Digits[(n % 10) + 1]>>

\* Rounding that takes every half upwards in magnitude
RoundHalfEven_HalfUp(q, rem, unit) ==
    q + (IF 2 * rem >= unit THEN 1 ELSE 0)

\* Decimal.__format__ rounds in the rounding of the decimal context, which
\* is ROUND_HALF_EVEN unless set otherwise: q units and rem of the next one
RoundHalfEven(q, rem, unit) ==
    q + (IF 2 * rem > unit \/ (2 * rem = unit /\ q % 2 = 1) THEN 1 ELSE 0)

MaxCoef == 1250

MaxScale == 4

\* money_format cutting the digits after the second
money_format_Truncated(m) ==
    LET a == m.amount
        n == IF a.coef < 0 THEN -a.coef ELSE a.coef
        cents == IF a.scale <= 2 THEN n * Pow10(2 - a.scale)
                 ELSE n \div Pow10(a.scale - 2)
    IN  (IF a.coef < 0 THEN <<"-">> ELSE <<>>)
            \o IntStr(cents \div 100) \o <<".">> \o Pad2(cents % 100)

\* money_format: "{:.2f}".format(m.amount) of a Decimal of coef / 10^scale.
\* The sign is written whenever the amount is below zero, also before 0.00.
money_format(m) ==
    LET a == m.amount
        n == IF a.coef < 0 THEN -a.coef ELSE a.coef
        cents == IF a.scale <= 2 THEN n * Pow10(2 - a.scale)
                 ELSE RoundHalfEven(n \div Pow10(a.scale - 2),
                                    n % Pow10(a.scale - 2), Pow10(a.scale - 2))
    IN  (IF a.coef < 0 THEN <<"-">> ELSE <<>>)
            \o IntStr(cents \div 100) \o <<".">> \o Pad2(cents % 100)

MoneyFormatInit ==
    /\ mf_m \in { Money([coef |-> c, scale |-> e], Currency(Smp.cur_EUR)) :
                    c \in (-MaxCoef)..MaxCoef, e \in 0..MaxScale }
    /\ mf_ret = Pending
    /\ mf_pc = "call"

MoneyFormatCall ==
    /\ mf_pc = "call"
    /\ mf_ret' = Ok(money_format(mf_m))
    /\ mf_pc' = "done"
    /\ UNCHANGED <<mf_m, rjVars, pdVars, tsvVars, eqVars, dsVars, cdVars, pgVars, vsVars>>

----------------------------------------------------------------------------
(* Page.convert_date *)

\* MONTHS_SHORT: the month of a name is its position
MONTHS_SHORT ==
    << <<"j", "a", "n">>, <<"f", "e", "b">>, <<"m", "r", "t">>, <<"a", "p", "r">>,
       <<"m", "e", "i">>, <<"j", "u", "n">>, <<"j", "u", "l">>, <<"a", "u", "g">>,
       <<"s", "e", "p">>, <<"o", "k", "t">>, <<"n", "o", "v">>, <<"d", "e", "c">> >>

\* text.split(): the runs of characters that are not whitespace
Words(s) == SelectSeq(SplitOn(s, WS), LAMBDA w : w # <<>>)

\* date.toordinal(): the days from 0001-01-01 to dt, that day counted;
\* date - date is the difference of the two
toordinal(dt) ==
    LET before[k \in 0..12] ==
            IF k = 0 THEN 0 ELSE before[k - 1] + DaysInMonth(dt.y, k)
        y == dt.y - 1
    IN  365 * y + (y \div 4) - (y \div 100) + (y \div 400) + before[dt.m - 1] + dt.d

FirstYear == 2023

MaxYears == 2

\* Page.convert_date of the page dated date: both candidates are built, and
\* a day the month does not have in either year raises ValueError, before
\* the two are compared.
convert_date(date, text) ==
    LET w == Words(text)
    IN  IF Len(w) # 2 THEN Raise("ValueError")
        ELSE IF ~IntParse(w[1]).ok THEN Raise("ValueError")
        ELSE IF ~ \E m \in 1..12 : MONTHS_SHORT[m] = w[2] THEN Raise("KeyError")
        ELSE
          LET d == IntParse(w[1]).val
              m == CHOOSE m \in 1..12 : MONTHS_SHORT[m] = w[2]
              y1 == date.y
              y2 == date.y - 1
          IN  IF d < 1 \/ d > DaysInMonth(y1, m) THEN Raise("ValueError")
              ELSE IF d > DaysInMonth(y2, m) THEN Raise("ValueError")
              ELSE
                LET dt1 == Date(y1, m, d)
                    dt2 == Date(y2, m, d)
                    diff1 == toordinal(date) - toordinal(dt1)
                    diff2 == toordinal(date) - toordinal(dt2)
                    abs(n) == IF n < 0 THEN -n ELSE n
                IN  IF abs(diff1) < abs(diff2) THEN Ok(dt1) ELSE Ok(dt2)

\* Pages dated the 1st, 2nd, 15th or 28th of a month; texts of a day, written
\* with two digits or as it is, and the short name of a month
ConvertDateInit ==
    /\ cd_date \in { Date(y, m, d) : y \in FirstYear..(FirstYear + MaxYears - 1),
                                     m \in 1..12, d \in {1, 2, 15, 28} }
    /\ cd_text \in { dd \o <<" ">> \o MONTHS_SHORT[m] :
                        dd \in {Pad2(d) : d \in 1..31} \cup {IntStr(d) : d \in 1..31},
                        m \in 1..12 }
    /\ cd_ret = Pending
    /\ cd_pc = "call"

ConvertDateCall ==
    /\ cd_pc = "call"
    /\ cd_ret' = convert_date(cd_date, cd_text)
    /\ cd_pc' = "done"
    /\ UNCHANGED <<cd_date, cd_text, rjVars, pdVars, tsvVars, eqVars, dsVars, mfVars, pgVars, vsVars>>

----------------------------------------------------------------------------
(* get_transactions_from_pages *)

\* Texts of the cells of a statement's table, those the code compares with,
\* and texts found elsewhere on the pages of a statement
Cell ==
    [ d09dec |-> <<"0", "9", " ", "d", "e", "c">>,
      d10dec |-> <<"1", "0", " ", "d", "e", "c">>,
      d20jan |-> <<"2", "0", " ", "j", "a", "n">>,
      d21jan |-> <<"2", "1", " ", "j", "a", "n">>,
      SHOP |-> <<"A", "L", "B", "E", "R", "T", " ", "H", "E", "I", "J", "N", " ", "1", "2", "3", "4">>,
      CITY |-> <<"A", "M", "S", "T", "E", "R", "D", "A", "M">>,
      NLD |-> <<"N", "L", "D">>,
      STORE |-> <<"A", "M", "A", "Z", "O", "N", " ", "M", "K", "T", "P", "L", "A", "C", "E">>,
      NEWYORK |-> <<"N", "E", "W", " ", "Y", "O", "R", "K">>,
      USA |-> <<"U", "S", "A">>,
      a12_34 |-> <<"1", "2", ",", "3", "4">>,
      a10_00 |-> <<"1", "0", ",", "0", "0">>,
      a9_50 |-> <<"9", ",", "5", "0">>,
      a0_00 |-> <<"0", ",", "0", "0">>,
      USD |-> <<"U", "S", "D">>,
      EUR |-> <<"E", "U", "R">>,
      Af |-> <<"A", "f">>,
      Bij |-> <<"B", "i", "j">>,
      Cr |-> <<"C", "r">>,
      plus |-> <<"+">>,
      minus |-> <<"-">>,
      rate |-> <<"1", ",", "0", "5", "2", "6", "3">>,
      Wisselkoers_ |-> <<"W", "i", "s", "s", "e", "l", "k", "o", "e", "r", "s", " ">>,
      Wisselkoers_USD |-> <<"W", "i", "s", "s", "e", "l", "k", "o", "e", "r", "s", " ", "U", "S", "D">>,
      Wisselkoers_BRL |-> <<"W", "i", "s", "s", "e", "l", "k", "o", "e", "r", "s", " ", "B", "R", "L">>,
      Uw_Card |-> <<"U", "w", " ", "C", "a", "r", "d">>,
      Uw_Card_met |-> <<"U", "w", " ", "C", "a", "r", "d", " ", "m", "e", "t", " ", "a", "l", "s", " ", "l", "a", "a", "t", "s", "t", "e", " ", "v", "i", "e", "r", " ", "c", "i", "j", "f", "e", "r", "s", " ">>,
      card_1234 |-> <<"U", "w", " ", "C", "a", "r", "d", " ", "m", "e", "t", " ", "a", "l", "s", " ", "l", "a", "a", "t", "s", "t", "e", " ", "v", "i", "e", "r", " ", "c", "i", "j", "f", "e", "r", "s", " ", "1", "2", "3", "4">>,
      card_5678 |-> <<"U", "w", " ", "C", "a", "r", "d", " ", "m", "e", "t", " ", "a", "l", "s", " ", "l", "a", "a", "t", "s", "t", "e", " ", "v", "i", "e", "r", " ", "c", "i", "j", "f", "e", "r", "s", " ", "5", "6", "7", "8">>,
      saldo |-> <<"H", "e", "t", " ", "t", "o", "t", "a", "l", "e", " ", "s", "a", "l", "d", "o", " ", "a", "d", " ", "1", "2", ",", "3", "4", " ", "z", "a", "l", " ", "o", "m", "s", "t", "r", "e", "e", "k", "s", " ", "1", " ", "m", "a", "a", "r", "t">>,
      incasso |-> <<"E", "1", "2", "3", " ", "w", "o", "r", "d", "e", "n", " ", "g", "e", "ï", "n", "c", "a", "s", "s", "e", "e", "r", "d">>,
      machtiging |-> <<"m", "a", "c", "h", "t", "i", "g", "i", "n", "g", "s", "n", "u", "m", "m", "e", "r", " ", "E", "9", " ", "w", "o", "r", "d", "e", "n", " ", "g", "e", "ï", "n", "c", "a", "s", "s", "e", "e", "r", "d", ".">>,
      nearly |-> <<"E", " ", "w", "o", "r", "d", "e", "n", " ", "g", "e", "ï", "n", "c", "a", "s", "s", "e", "e", "r", "d">>,
      datum |-> <<"1", " ", "f", "e", "b", "r", "u", "a", "r", "i", " ", "2", "0", "2", "3">>,
      datum_31 |-> <<"3", "1", " ", "f", "e", "b", "r", "u", "a", "r", "i", " ", "2", "0", "2", "3">>,
      datum_foo |-> <<"1", " ", "f", "o", "o", " ", "2", "0", "2", "3">>,
      van |-> <<"1", " ", "v", "a", "n", " ", "2">>,
      name |-> <<"J", " ", "S", "M", "I", "T", "H", " ", "V", "A", "N", " ", "D", "E", " ", "F", "O", "O", "B", "A", "R">> ]

\* A row of Page.table_as_list: nine texts, one per column
RawRow == 
    [ tx         |-> <<Cell.d09dec, Cell.d10dec, Cell.SHOP, Cell.CITY, Cell.NLD,
                      <<>>, <<>>, Cell.a12_34, Cell.Af>>,
      tx_bij     |-> <<Cell.d09dec, Cell.d10dec, Cell.SHOP, Cell.CITY, Cell.NLD,
                      <<>>, <<>>, Cell.a10_00, Cell.Bij>>,
      tx_blank   |-> <<Cell.d09dec, Cell.d10dec, Cell.SHOP, Cell.CITY, Cell.NLD,
                      <<>>, <<>>, Cell.a9_50, <<>>>>,
      tx_other   |-> <<Cell.d09dec, Cell.d10dec, Cell.SHOP, Cell.CITY, Cell.NLD,
                      <<>>, <<>>, Cell.a12_34, Cell.Cr>>,
      tx_zero    |-> <<Cell.d09dec, Cell.d10dec, Cell.SHOP, Cell.CITY, Cell.NLD,
                      <<>>, <<>>, Cell.a0_00, Cell.Af>>,
      fx         |-> <<Cell.d20jan, Cell.d21jan, Cell.STORE, Cell.NEWYORK, Cell.USA,
                      Cell.a10_00, Cell.USD, Cell.a9_50, Cell.Af>>,
      half       |-> <<Cell.d20jan, Cell.d21jan, Cell.STORE, Cell.NEWYORK, Cell.USA,
                      Cell.a10_00, <<>>, Cell.a9_50, Cell.Af>>,
      rate       |-> <<<<>>, <<>>, Cell.Wisselkoers_USD, Cell.rate, <<>>,
                      <<>>, <<>>, <<>>, <<>>>>,
      rate_brl   |-> <<<<>>, <<>>, Cell.Wisselkoers_BRL, Cell.rate, <<>>,
                      <<>>, <<>>, <<>>, <<>>>>,
      rate_dirty |-> <<<<>>, <<>>, Cell.Wisselkoers_USD, Cell.rate, Cell.USA,
                      <<>>, <<>>, <<>>, <<>>>>,
      card_1234  |-> <<Cell.card_1234, <<>>, <<>>, <<>>, <<>>, <<>>, <<>>, <<>>, <<>>>>,
      card_5678  |-> <<Cell.card_5678, <<>>, <<>>, <<>>, <<>>, <<>>, <<>>, <<>>, <<>>>>,
      name       |-> <<Cell.name, <<>>, <<>>, <<>>, <<>>, <<>>, <<>>, <<>>, <<>>>> ]

\* Runs of rows a table is put together from: a transaction in euros, one in
\* a foreign currency with its exchange rate, a change of card, and rows
\* that miss their neighbour or do not fit it
PdfPieces ==
    { <<RawRow.tx>>, <<RawRow.fx, RawRow.rate>>,
      <<RawRow.card_1234, RawRow.name>>, <<RawRow.card_5678, RawRow.name>>,
      <<RawRow.rate>>, <<RawRow.name>>, <<RawRow.fx>>,
      <<RawRow.half>>, <<RawRow.fx, RawRow.rate_brl>>, <<RawRow.fx, RawRow.rate_dirty>> }

MaxPdfPieces == 3

\* util.interval(low, high), an interval of numbers
interval(low, high) == [low |-> low, high |-> high]

\* An interval that has its upper end
__contains___Closed(iv, n) == iv.low <= n /\ n <= iv.high

\* interval.__contains__: n in iv
__contains__(iv, n) == iv.low <= n /\ n < iv.high

\* Page.COLUMNS: x_interval, max_length and convert_method of each column
COLUMNS ==
    << [x_interval |-> interval(59, 62), max_length |-> 6, convert_method |-> "convert_date"],
       [x_interval |-> interval(102, 106), max_length |-> 6, convert_method |-> "convert_date"],
       [x_interval |-> interval(149, 155), max_length |-> 24, convert_method |-> "None"],
       [x_interval |-> interval(275, 277), max_length |-> 13, convert_method |-> "None"],
       [x_interval |-> interval(362, 364), max_length |-> 3, convert_method |-> "None"],
       [x_interval |-> interval(401, 440), max_length |-> 8, convert_method |-> "convert_amount"],
       [x_interval |-> interval(444, 446), max_length |-> 3, convert_method |-> "None"],
       [x_interval |-> interval(478, 530), max_length |-> 8, convert_method |-> "convert_amount"],
       [x_interval |-> interval(535, 539), max_length |-> 3, convert_method |-> "convert_bij_af"] >>

\* The width of the first column
DateColumnLen == 6

\* A cell holding a datetime.date, which no text equals
DateCell(dt) == <<"date", dt.y, dt.m, dt.d>>

\* isinstance(cell, datetime.date)
IsDateCell(cell) == Len(cell) = 4 /\ cell[1] = "date"

\* Page.convert_cell_text on the page dated date, with Page.convert_amount
\* and Page.convert_bij_af
convert_cell_text(date, text, method) ==
    LET t == Strip(text)
    IN  IF t = <<>> THEN Ok(<<>>)
        ELSE IF method = "None" THEN Ok(t)
        ELSE IF method = "convert_date"
        THEN LET r == convert_date(date, t)
             IN  IF r.ok THEN Ok(DateCell(r.val)) ELSE r
        ELSE IF method = "convert_amount"
        THEN Ok(Replace(SelectSeq(t, LAMBDA c : c # "."), ",", "."))
        ELSE IF t = Cell.Bij THEN Ok(Cell.plus)
        ELSE IF t = Cell.Af THEN Ok(Cell.minus)
        ELSE Raise("KeyError")

\* A loop that stops at the first exception: the exception of the first
\* outcome that is one, or else the values of the outcomes
FirstRaise(outcomes) ==
    CHOOSE v \in { IF \E i \in DOMAIN o : ~o[i].ok
                   THEN o[CHOOSE i \in DOMAIN o : ~o[i].ok /\ \A j \in 1..(i - 1) : o[j].ok]
                   ELSE Ok([i \in DOMAIN o |-> o[i].val]) : o \in {outcomes} } : TRUE

\* Page.table_as_list with the rows from the lowest y to the highest
table_as_list_Ascending(page) == [i \in 1..Cardinality(DOMAIN page.table) |-> page.table[CHOOSE y \in DOMAIN page.table : Cardinality({z \in DOMAIN page.table : z < y}) = i - 1]]

\* Page.table_as_list: the rows of Page.table, a mapping from y to a row,
\* sorted by y in reverse.  No two items have the same y, so that sorted()
\* never compares two rows.
table_as_list(page) == [i \in 1..Cardinality(DOMAIN page.table) |-> page.table[CHOOSE y \in DOMAIN page.table : Cardinality({z \in DOMAIN page.table : z > y}) = i - 1]]

\* Part 1 without its two sanity checks on the pages
ConcatTable_Unchecked(pages) ==
    LET row(p, raw) ==
            IF Len(raw[1]) > DateColumnLen
            THEN IF \A c \in 2..Len(raw) : Strip(raw[c]) = <<>>
                 THEN Ok(<<Strip(raw[1])>>)
                 ELSE Raise("AssertionError")
            ELSE FirstRaise([c \in 1..Len(raw) |->
                                convert_cell_text(pages[p].date, raw[c], COLUMNS[c].convert_method)])
        page(p) ==
            CHOOSE v \in { FirstRaise([i \in 1..Len(l) |-> row(p, l[i])]) :
                                   l \in {table_as_list(pages[p])} } : TRUE
    IN  CHOOSE v \in { IF t.ok THEN Ok(Concat(t.val)) ELSE t :
                         t \in {FirstRaise([p \in 1..Len(pages) |-> page(p)])} } : TRUE

\* get_transactions_from_pages, part 1: the table of all the pages, each row
\* converted, or the first exception raised on the way
ConcatTable(pages) ==
    LET row(p, raw) ==
            IF Len(raw[1]) > DateColumnLen
            THEN IF \A c \in 2..Len(raw) : Strip(raw[c]) = <<>>
                 THEN Ok(<<Strip(raw[1])>>)
                 ELSE Raise("AssertionError")
            ELSE FirstRaise([c \in 1..Len(raw) |->
                                convert_cell_text(pages[p].date, raw[c], COLUMNS[c].convert_method)])
        page(p) ==
            IF pages[p].page_nr # p THEN Raise("AssertionError")
            ELSE IF p > 1 /\ pages[p].date # pages[1].date THEN Raise("AssertionError")
            ELSE CHOOSE v \in { FirstRaise([i \in 1..Len(l) |-> row(p, l[i])]) :
                                   l \in {table_as_list(pages[p])} } : TRUE
    IN  CHOOSE v \in { IF t.ok THEN Ok(Concat(t.val)) ELSE t :
                         t \in {FirstRaise([p \in 1..Len(pages) |-> page(p)])} } : TRUE

\* group_related_rows that forgets the rows still in its buffer at the end
group_related_rows_DropLast(table) ==
    LET starts(row) == IsDateCell(row[1]) \/ StartsWith(row[1], Cell.Uw_Card)
        f[i \in 0..Len(table)] ==
            IF i = 0 THEN [out |-> <<>>, buffer |-> <<>>]
            ELSE IF starts(table[i])
                 THEN [out |-> IF Len(f[i - 1].buffer) > 0
                               THEN Append(f[i - 1].out, f[i - 1].buffer)
                               ELSE f[i - 1].out,
                       buffer |-> <<table[i]>>]
                 ELSE [out |-> f[i - 1].out, buffer |-> Append(f[i - 1].buffer, table[i])]
    IN  f[Len(table)].out

\* group_related_rows: the groups yielded, in order.  A row whose first cell
\* is a date or starts with "Uw Card" yields the buffer and starts a new one,
\* any other row joins the buffer, and the end of the table yields the buffer.
group_related_rows(table) ==
    LET starts(row) == IsDateCell(row[1]) \/ StartsWith(row[1], Cell.Uw_Card)
        f[i \in 0..Len(table)] ==
            IF i = 0 THEN [out |-> <<>>, buffer |-> <<>>]
            ELSE IF starts(table[i])
                 THEN [out |-> IF Len(f[i - 1].buffer) > 0
                               THEN Append(f[i - 1].out, f[i - 1].buffer)
                               ELSE f[i - 1].out,
                       buffer |-> <<table[i]>>]
                 ELSE [out |-> f[i - 1].out, buffer |-> Append(f[i - 1].buffer, table[i])]
    IN  IF Len(f[Len(table)].buffer) > 0
        THEN Append(f[Len(table)].out, f[Len(table)].buffer)
        ELSE f[Len(table)].out

\* Transaction(...) that leaves exchange_rate out
PdfTransaction_RateDropped(card_number, date, descriptions, country_code, amount, foreign_amount, exchange_rate) ==
    [ card_number |-> card_number, date |-> date, descriptions |-> descriptions,
      country_code |-> country_code, amount |-> amount,
      foreign_amount |-> foreign_amount, exchange_rate |-> None ]

\* The Transaction dataclass of the PDF parser
PdfTransaction(card_number, date, descriptions, country_code, amount, foreign_amount, exchange_rate) ==
    [ card_number |-> card_number, date |-> date, descriptions |-> descriptions,
      country_code |-> country_code, amount |-> amount,
      foreign_amount |-> foreign_amount, exchange_rate |-> exchange_rate ]

\* The loop body that takes the name on the card for its number
ProcessRows_CardName(rows, card_number) ==
    LET keep(e) == [kind |-> "raise", card_number |-> card_number, tx |-> None, err |-> e]
        first == rows[1]
        second == IF Len(rows) > 1 THEN rows[2] ELSE <<>>
        at == Len(Cell.Uw_Card_met) + 1
        amount == DecimalParse(first[9] \o first[8])
        foreign == DecimalParse(first[6])
        rate == DecimalParse(Replace(second[4], ",", "."))
    IN  IF ~(0 < Len(rows) /\ Len(rows) <= 2) THEN keep("AssertionError")
        ELSE IF Len(first) = 1 /\ Len(second) = 1
        THEN IF StartsWith(first[1], Cell.Uw_Card_met)
                  /\ Len(first[1]) >= at /\ first[1][at] \in DigitSet
             THEN [kind |-> "card",
                   card_number |-> Some(second[1]),
                   tx |-> None, err |-> "none"]
             ELSE keep("AttributeError")
        ELSE IF Len(first) = 9 /\ Len(second) \in {0, 9}
        THEN IF first[6] = <<>> /\ first[7] = <<>> /\ Len(second) = 0
             THEN IF ~amount.ok THEN keep(amount.err)
                  ELSE [kind |-> "yield", card_number |-> card_number, err |-> "none",
                        tx |-> Some(PdfTransaction(card_number, first[1],
                                     <<first[3], first[4]>>, first[5],
                                     Money(amount.val, Currency(Cell.EUR)), None, None))]
             ELSE IF first[6] # <<>> /\ first[7] # <<>> /\ Len(second) = 9
             THEN IF \E c \in {1, 2, 5, 6, 7, 8, 9} : second[c] # <<>>
                  THEN keep("AssertionError")
                  ELSE IF second[3] # Cell.Wisselkoers_ \o first[7]
                  THEN keep("AssertionError")
                  ELSE IF ~amount.ok THEN keep(amount.err)
                  ELSE IF ~foreign.ok THEN keep(foreign.err)
                  ELSE IF ~rate.ok THEN keep("ValueError")
                  ELSE [kind |-> "yield", card_number |-> card_number, err |-> "none",
                        tx |-> Some(PdfTransaction(card_number, first[1],
                                     <<first[3], first[4]>>, first[5],
                                     Money(amount.val, Currency(Cell.EUR)),
                                     Some(Money(foreign.val, Currency(first[7]))),
                                     Some(rate.val)))]
             ELSE keep("AssertionError")
        ELSE keep("AssertionError")

\* The loop body that does not look for a second row after a row in euros
ProcessRows_Lenient(rows, card_number) ==
    LET keep(e) == [kind |-> "raise", card_number |-> card_number, tx |-> None, err |-> e]
        first == rows[1]
        second == IF Len(rows) > 1 THEN rows[2] ELSE <<>>
        at == Len(Cell.Uw_Card_met) + 1
        amount == DecimalParse(first[9] \o first[8])
        foreign == DecimalParse(first[6])
        rate == DecimalParse(Replace(second[4], ",", "."))
    IN  IF ~(0 < Len(rows) /\ Len(rows) <= 2) THEN keep("AssertionError")
        ELSE IF Len(first) = 1 /\ Len(second) = 1
        THEN IF StartsWith(first[1], Cell.Uw_Card_met)
                  /\ Len(first[1]) >= at /\ first[1][at] \in DigitSet
             THEN [kind |-> "card",
                   card_number |-> Some(SubSeq(first[1], at, RunEnd(first[1], at, DigitSet, TRUE) - 1)),
                   tx |-> None, err |-> "none"]
             ELSE keep("AttributeError")
        ELSE IF Len(first) = 9 /\ Len(second) \in {0, 9}
        THEN IF first[6] = <<>> /\ first[7] = <<>> /\ TRUE
             THEN IF ~amount.ok THEN keep(amount.err)
                  ELSE [kind |-> "yield", card_number |-> card_number, err |-> "none",
                        tx |-> Some(PdfTransaction(card_number, first[1],
                                     <<first[3], first[4]>>, first[5],
                                     Money(amount.val, Currency(Cell.EUR)), None, None))]
             ELSE IF first[6] # <<>> /\ first[7] # <<>> /\ Len(second) = 9
             THEN IF \E c \in {1, 2, 5, 6, 7, 8, 9} : second[c] # <<>>
                  THEN keep("AssertionError")
                  ELSE IF second[3] # Cell.Wisselkoers_ \o first[7]
                  THEN keep("AssertionError")
                  ELSE IF ~amount.ok THEN keep(amount.err)
                  ELSE IF ~foreign.ok THEN keep(foreign.err)
                  ELSE IF ~rate.ok THEN keep("ValueError")
                  ELSE [kind |-> "yield", card_number |-> card_number, err |-> "none",
                        tx |-> Some(PdfTransaction(card_number, first[1],
                                     <<first[3], first[4]>>, first[5],
                                     Money(amount.val, Currency(Cell.EUR)),
                                     Some(Money(foreign.val, Currency(first[7]))),
                                     Some(rate.val)))]
             ELSE keep("AssertionError")
        ELSE keep("AssertionError")

\* get_transactions_from_pages, part 2, the body of the loop for one group
\* of rows: the card number changes, a Transaction is yielded, or an
\* exception is raised.  The name on the card is not kept.  An amount is a
\* Decimal, and so is the rate, which float() makes of the same digits.
ProcessRows(rows, card_number) ==
    LET keep(e) == [kind |-> "raise", card_number |-> card_number, tx |-> None, err |-> e]
        first == rows[1]
        second == IF Len(rows) > 1 THEN rows[2] ELSE <<>>
        at == Len(Cell.Uw_Card_met) + 1
        amount == DecimalParse(first[9] \o first[8])
        foreign == DecimalParse(first[6])
        rate == DecimalParse(Replace(second[4], ",", "."))
    IN  IF ~(0 < Len(rows) /\ Len(rows) <= 2) THEN keep("AssertionError")
        ELSE IF Len(first) = 1 /\ Len(second) = 1
        THEN IF StartsWith(first[1], Cell.Uw_Card_met)
                  /\ Len(first[1]) >= at /\ first[1][at] \in DigitSet
             THEN [kind |-> "card",
                   card_number |-> Some(SubSeq(first[1], at, RunEnd(first[1], at, DigitSet, TRUE) - 1)),
                   tx |-> None, err |-> "none"]
             ELSE keep("AttributeError")
        ELSE IF Len(first) = 9 /\ Len(second) \in {0, 9}
        THEN IF first[6] = <<>> /\ first[7] = <<>> /\ Len(second) = 0
             THEN IF ~amount.ok THEN keep(amount.err)
                  ELSE [kind |-> "yield", card_number |-> card_number, err |-> "none",
                        tx |-> Some(PdfTransaction(card_number, first[1],
                                     <<first[3], first[4]>>, first[5],
                                     Money(amount.val, Currency(Cell.EUR)), None, None))]
             ELSE IF first[6] # <<>> /\ first[7] # <<>> /\ Len(second) = 9
             THEN IF \E c \in {1, 2, 5, 6, 7, 8, 9} : second[c] # <<>>
                  THEN keep("AssertionError")
                  ELSE IF second[3] # Cell.Wisselkoers_ \o first[7]
                  THEN keep("AssertionError")
                  ELSE IF ~amount.ok THEN keep(amount.err)
                  ELSE IF ~foreign.ok THEN keep(foreign.err)
                  ELSE IF ~rate.ok THEN keep("ValueError")
                  ELSE [kind |-> "yield", card_number |-> card_number, err |-> "none",
                        tx |-> Some(PdfTransaction(card_number, first[1],
                                     <<first[3], first[4]>>, first[5],
                                     Money(amount.val, Currency(Cell.EUR)),
                                     Some(Money(foreign.val, Currency(first[7]))),
                                     Some(rate.val)))]
             ELSE keep("AssertionError")
        ELSE keep("AssertionError")

\* The pages of a statement dated the first of February: all its rows on
\* one page, or half of them on the first page and the rest on the second.
\* The rows of a page are 12 apart, the first at the top, under the header
\* of the table.
Paginate(rows) ==
    LET date == Date(FirstYear, 2, 1)
        h == (Len(rows) + 1) \div 2
        laid(rs) == [y \in {633 - 12 * i : i \in 1..Len(rs)} |-> rs[(633 - y) \div 12]]
    IN  { << [page_nr |-> 1, date |-> date, table |-> laid(rows)] >>,
          << [page_nr |-> 1, date |-> date, table |-> laid(SubSeq(rows, 1, h))],
             [page_nr |-> 2, date |-> date,
              table |-> laid(SubSeq(rows, h + 1, Len(rows)))] >> }

PdfInit ==
    /\ \E ps \in SeqsUpTo(PdfPieces, MaxPdfPieces) : pg_pages \in Paginate(Concat(ps))
    /\ pg_table = <<>>
    /\ pg_groups = <<>>
    /\ pg_k = 0
    /\ pg_row = 0
    /\ pg_card = None
    /\ pg_out = <<>>
    /\ pg_from = <<>>
    /\ pg_err = "none"
    /\ pg_pc = "start"

\* The pages of a statement as a caller may pass them: those of Paginate, or
\* the same with the last page numbered one too high, with the first page
\* numbered 2, or with the last page dated a month later; the rows have a
\* Bij/Af cell of each kind, or are an exchange rate with no transaction
\* before it
PdfPagesInit ==
    /\ \E ps \in SeqsUpTo({<<RawRow.tx>>, <<RawRow.tx_bij>>, <<RawRow.tx_blank>>,
                            <<RawRow.tx_other>>, <<RawRow.tx_zero>>, <<RawRow.rate>>},
                           MaxPdfPieces) :
          \E good \in Paginate(Concat(ps)) :
              pg_pages \in { good,
                             [good EXCEPT ![Len(good)].page_nr = @ + 1],
                             [good EXCEPT ![1].page_nr = 2],
                             [good EXCEPT ![Len(good)].date = Date(FirstYear, 3, 1)] }
    /\ pg_table = <<>>
    /\ pg_groups = <<>>
    /\ pg_k = 0
    /\ pg_row = 0
    /\ pg_card = None
    /\ pg_out = <<>>
    /\ pg_from = <<>>
    /\ pg_err = "none"
    /\ pg_pc = "start"

\* The first next(): part 1 runs to its end, or raises
ConcatPages ==
    /\ pg_pc = "start"
    /\ \E t \in {ConcatTable(pg_pages)} :
          IF t.ok
          THEN /\ pg_table' = t.val
               /\ pg_groups' = group_related_rows(t.val)
               /\ pg_pc' = "loop"
               /\ pg_err' = pg_err
          ELSE /\ pg_pc' = "failed"
               /\ pg_err' = t.err
               /\ UNCHANGED <<pg_table, pg_groups>>
    /\ UNCHANGED <<pg_pages, pg_k, pg_row, pg_card, pg_out, pg_from,
                   rjVars, pdVars, tsvVars, eqVars, dsVars, mfVars, cdVars, vsVars>>

\* The loop of part 2 takes the next group of rows
ProcessGroup ==
    /\ pg_pc = "loop"
    /\ pg_k < Len(pg_groups)
    /\ \E r \in {ProcessRows(pg_groups[pg_k + 1], pg_card)} :
          /\ pg_card' = r.card_number
          /\ pg_out' = IF r.kind = "yield" THEN Append(pg_out, r.tx[1]) ELSE pg_out
          /\ pg_from' = IF r.kind = "yield" THEN Append(pg_from, pg_row + 1) ELSE pg_from
          /\ pg_err' = r.err
          /\ pg_pc' = IF r.kind = "raise" THEN "failed" ELSE "loop"
    /\ pg_k' = pg_k + 1
    /\ pg_row' = pg_row + Len(pg_groups[pg_k + 1])
    /\ UNCHANGED <<pg_pages, pg_table, pg_groups,
                   rjVars, pdVars, tsvVars, eqVars, dsVars, mfVars, cdVars, vsVars>>

\* No group is left: the generator ends
EndOfTable ==
    /\ pg_pc = "loop"
    /\ pg_k = Len(pg_groups)
    /\ pg_pc' = "done"
    /\ UNCHANGED <<pg_pages, pg_table, pg_groups, pg_k, pg_row, pg_card, pg_out,
                   pg_from, pg_err, rjVars, pdVars, tsvVars, eqVars, dsVars, mfVars, cdVars, vsVars>>

----------------------------------------------------------------------------
(* Page.visitor *)

\* MONTHS_LONG: the names of the months, the n-th the name of month n
MONTHS_LONG ==
    << <<"j", "a", "n", "u", "a", "r", "i">>,
       <<"f", "e", "b", "r", "u", "a", "r", "i">>,
       <<"m", "a", "a", "r", "t">>,
       <<"a", "p", "r", "i", "l">>,
       <<"m", "e", "i">>,
       <<"j", "u", "n", "i">>,
       <<"j", "u", "l", "i">>,
       <<"a", "u", "g", "u", "s", "t", "u", "s">>,
       <<"s", "e", "p", "t", "e", "m", "b", "e", "r">>,
       <<"o", "k", "t", "o", "b", "e", "r">>,
       <<"n", "o", "v", "e", "m", "b", "e", "r">>,
       <<"d", "e", "c", "e", "m", "b", "e", "r">> >>

\* The patterns Page.visitor joins with "|": a list of tokens each, a
\* character that stands for itself, "." for any character but a line break,
\* ".*" for any run of those, "[0-9]+" for a run of digits, not empty.  The
\* pattern with "(machtigingsnummer )?" is written as two, with and without.
DENYLIST ==
    << <<"U", "w", " ", "b", "e", "t", "a", "l", "i", "n", "g", "e", "n",
         " ", "a", "a", "n", " ", "I", "n", "t", "e", "r", "n", "a",
         "t", "i", "o", "n", "a", "l", " ", "C", "a", "r", "d", " ",
         "S", "e", "r", "v", "i", "c", "e", "s", " ", "B", "V", " ",
         "z", "i", "j", "n", " ", "b", "i", "j", "g", "e", "w", "e",
         "r", "k", "t">>,
       <<"H", "e", "t", " ", "t", "o", "t", "a", "l", "e", " ", "s", "a",
         "l", "d", "o", " ", "a", "d", ".*", "z", "a", "l", " ",
         "o", "m", "s", "t", "r", "e", "e", "k", "s">>,
       <<"m", "a", "c", "h", "t", "i", "g", "i", "n", "g", "s", "n", "u",
         "m", "m", "e", "r", " ", "E", "[0-9]+", " ", "w", "o", "r",
         "d", "e", "n", " ", "g", "e", "ï", "n", "c", "a", "s", "s",
         "e", "e", "r", "d">>,
       <<"E", "[0-9]+", " ", "w", "o", "r", "d", "e", "n", " ", "g", "e",
         "ï", "n", "c", "a", "s", "s", "e", "e", "r", "d">>,
       <<"W", "i", "l", "t", " ", "u", " ", "e", "e", "n", " ", "o", "v",
         "e", "r", "b", "o", "e", "k", "i", "n", "g", " ", "d", "o",
         "e", "n", " ", "n", "a", "a", "r", " ", "u", "w", " ", "C",
         "a", "r", "d", "-", "r", "e", "k", "e", "n", "i", "n", "g">>,
       <<"D", "i", "e", "m", "e", "n", ".", " ", "V", "e", "r", "m", "e",
         "l", "d", " ", "b", "i", "j", " ", "u", "w", " ", "b", "e",
         "t", "a", "l", "i", "n", "g", " ", "a", "l", "t", "i", "j",
         "d", " ", "u", "w", " ", "I", "C", "S", "-", "k", "l", "a",
         "n", "t", "n", "u", "m", "m", "e", "r">>,
       <<"N", "u", " ", "b", "e", "s", "c", "h", "i", "k", "b", "a", "a",
         "r", ":", " ", "A", "p", "p", "l", "e", " ", "P", "a", "y",
         "!", " ", "V", "o", "e", "g", " ", "e", "e", "n", "v", "o",
         "u", "d", "i", "g", " ", "u", "w", " ", "C", "a", "r", "d",
         " ", "a", "a", "n", " ", "u", "w", " ", "A", "p", "p", "l",
         "e", " ", "W", "a", "l", "l", "e", "t", " ", "t", "o", "e",
         " ", "i", "n", " ", "o", "n", "z", "e", " ", "a", "p", "p",
         ".">>,
       <<"A", "l", "s", " ", "u", " ", "o", "n", "l", "i", "n", "e", " ",
         "e", "e", "n", " ", "p", "r", "o", "d", "u", "c", "t", " ",
         "b", "e", "s", "t", "e", "l", "d", " ", "h", "e", "e", "f",
         "t", ",", " ", "b", "e", "n", "t", " ", "u", " ", "e", "r",
         " ", "n", "a", "t", "u", "u", "r", "l", "i", "j", "k">>,
       <<"z", "u", "i", "n", "i", "g", " ", "o", "p", ".", " ", "M", "a",
         "a", "r", " ", "e", "e", "n", " ", "o", "n", "g", "e", "l",
         "u", "k", " ", "z", "i", "t", " ", "i", "n", " ", "e", "e",
         "n", " ", "k", "l", "e", "i", "n", " ", "h", "o", "e", "k",
         "j", "e">>,
       <<"d", "a", "a", "r", "o", "m", " ", "a", "l", "t", "i", "j", "d",
         " ", "m", "e", "t", " ", "u", "w", " ", "A", "B", "N", " ",
         "A", "M", "R", "O", " ", "c", "r", "e", "d", "i", "t", "c",
         "a", "r", "d">>,
       <<"e", "e", "n", " ", "A", "a", "n", "k", "o", "o", "p", "v", "e",
         "r", "z", "e", "k", "e", "r", "i", "n", "g", ".", " ", "K",
         "i", "j", "k", " ", "v", "o", "o", "r", " ", "m", "e", "e",
         "r", " ", "i", "n", "f", "o", "r", "m", "a", "t", "i", "e">>,
       <<"v", "o", "o", "r", "w", "a", "a", "r", "d", "e", "n", " ", "o",
         "p", " ", "w", "w", "w", ".", "z", "e", "k", "e", "r", "m",
         "e", "t", "j", "e", "c", "r", "e", "d", "i", "t", "c", "a",
         "r", "d", ".", "n", "l">> >>

RECURSIVE re_match(_, _, _, _)
\* re.match of one pattern: the tokens of pattern from the i-th on match
\* text from its j-th character on; a run of tokens that stand for one
\* character each, up to its last token e, is matched in one step once its
\* first token matches
re_match(pattern, i, text, j) ==
    IF i > Len(pattern) THEN TRUE
    ELSE IF pattern[i] = ".*"
    THEN \E k \in j..(Len(text) + 1) :
            /\ \A n \in j..(k - 1) : text[n] # NL
            /\ re_match(pattern, i + 1, text, k)
    ELSE IF pattern[i] = "[0-9]+"
    THEN \E k \in (j + 1)..(Len(text) + 1) :
            /\ \A n \in j..(k - 1) : text[n] \in DigitSet
            /\ re_match(pattern, i + 1, text, k)
    ELSE /\ j <= Len(text)
         /\ IF pattern[i] = "." THEN text[j] # NL ELSE text[j] = pattern[i]
         /\ \E e \in i..Len(pattern) :
            /\ e = Len(pattern) \/ pattern[e + 1] \in {".*", "[0-9]+"}
            /\ \A n \in i..e : pattern[n] \notin {".*", "[0-9]+"}
            /\ j + (e - i) <= Len(text)
            /\ \A n \in i..e :
                  IF pattern[n] = "." THEN text[j + (n - i)] # NL
                  ELSE text[j + (n - i)] = pattern[n]
            /\ re_match(pattern, e + 1, text, j + (e - i) + 1)

\* Page.visitor with its sanity checks on the font size and the matrices
\* before the rules that pass a text over
visitor_AssertFirst(page, text, cm, tm, font_size) ==
    LET return(p) == [page |-> p, ret |-> Ok(None)]
        raise(p, e) == [page |-> p, ret |-> Raise(e)]
        x == tm[5]
        y == tm[6]
        y_company_info == IF page.nr = 1 THEN interval(755, 9999) ELSE interval(0, 0)
        y_statement_info == interval(665, 721)
        y_main_table == IF page.nr = 1 THEN interval(126, 645) ELSE interval(0, 645)
        y_footer_info == IF page.nr = 1 THEN interval(0, 126) ELSE interval(0, 0)
        y_header == interval(633, 645)
        words == Words(text)
        months == {m \in DOMAIN MONTHS_LONG : MONTHS_LONG[m] = words[2]}
        month == CHOOSE m \in months : TRUE
        year == IntParse(words[3])
        day == IntParse(words[1])
        nr == IntParse(text)
        total == IntParse(Partition(text, <<"v", "a", "n", " ">>)[3])
        columns == {n \in DOMAIN COLUMNS : __contains__(COLUMNS[n].x_interval, x)}
        column == CHOOSE n \in columns : \A k \in columns : n <= k
        blank == [n \in DOMAIN COLUMNS |-> <<>>]
    IN  IF font_size # 8 THEN raise(page, "AssertionError")
        ELSE IF cm # <<1, 0, 0, 1, 0, 0>> THEN raise(page, "AssertionError")
        ELSE IF tm # <<1, 0, 0, 1, x, y>> THEN raise(page, "AssertionError")
        ELSE IF Strip(text) = <<>> THEN return(page)
        ELSE IF font_size = 6 THEN return(page)
        ELSE IF \E k \in DOMAIN DENYLIST : re_match(DENYLIST[k], 1, text, 1)
        THEN return(page)
        ELSE IF __contains__(y_company_info, y) THEN return(page)
        ELSE IF __contains__(y_statement_info, y)
        THEN IF 59 <= x /\ x <= 61 /\ 708 <= y /\ y <= 710
             THEN IF Len(words) # 3 THEN raise(page, "ValueError")
                  ELSE IF months = {} THEN raise(page, "KeyError")
                  ELSE IF ~year.ok THEN raise(page, "ValueError")
                  ELSE IF ~day.ok THEN raise(page, "ValueError")
                  ELSE IF /\ 1 <= year.val /\ year.val <= 9999
                          /\ 1 <= day.val /\ day.val <= DaysInMonth(year.val, month)
                  THEN return([page EXCEPT !.date = Some(Date(year.val, month, day.val))])
                  ELSE raise(page, "ValueError")
             ELSE IF 410 <= x /\ x <= 412 /\ 708 <= y /\ y <= 710
             THEN IF ~nr.ok THEN raise(page, "ValueError")
                  ELSE IF nr.val # page.nr
                  THEN raise([page EXCEPT !.page_nr = Some(nr.val)], "AssertionError")
                  ELSE return([page EXCEPT !.page_nr = Some(nr.val)])
             ELSE IF 420 <= x /\ 708 <= y /\ y <= 710
             THEN IF ~total.ok THEN raise(page, "ValueError")
                  ELSE return([page EXCEPT !.total_pages = Some(total.val)])
             ELSE return(page)
        ELSE IF __contains__(y_main_table, y)
        THEN IF __contains__(y_header, y) THEN return(page)
             ELSE IF columns = {} THEN raise(page, "AssertionError")
             ELSE return([page EXCEPT !.table =
                            IF y \in DOMAIN @ THEN [@ EXCEPT ![y][column] = text]
                            ELSE @ @@ (y :> [blank EXCEPT ![column] = text])])
        ELSE IF __contains__(y_footer_info, y) THEN return(page)
        ELSE raise(page, "AssertionError")

\* Page.visitor(text, cm, tm, font_dict, font_size) on the page: the page as
\* the call leaves it, and None returned or the exception raised.  font_dict
\* is not used.  The coordinates and the font size are whole numbers here;
\* an assertion evaluates its message, which prints and changes nothing.
visitor(page, text, cm, tm, font_size) ==
    LET return(p) == [page |-> p, ret |-> Ok(None)]
        raise(p, e) == [page |-> p, ret |-> Raise(e)]
        x == tm[5]
        y == tm[6]
        y_company_info == IF page.nr = 1 THEN interval(755, 9999) ELSE interval(0, 0)
        y_statement_info == interval(665, 721)
        y_main_table == IF page.nr = 1 THEN interval(126, 645) ELSE interval(0, 645)
        y_footer_info == IF page.nr = 1 THEN interval(0, 126) ELSE interval(0, 0)
        y_header == interval(633, 645)
        words == Words(text)
        months == {m \in DOMAIN MONTHS_LONG : MONTHS_LONG[m] = words[2]}
        month == CHOOSE m \in months : TRUE
        year == IntParse(words[3])
        day == IntParse(words[1])
        nr == IntParse(text)
        total == IntParse(Partition(text, <<"v", "a", "n", " ">>)[3])
        columns == {n \in DOMAIN COLUMNS : __contains__(COLUMNS[n].x_interval, x)}
        column == CHOOSE n \in columns : \A k \in columns : n <= k
        blank == [n \in DOMAIN COLUMNS |-> <<>>]
    IN  IF Strip(text) = <<>> THEN return(page)
        ELSE IF font_size = 6 THEN return(page)
        ELSE IF \E k \in DOMAIN DENYLIST : re_match(DENYLIST[k], 1, text, 1)
        THEN return(page)
        ELSE IF font_size # 8 THEN raise(page, "AssertionError")
        ELSE IF cm # <<1, 0, 0, 1, 0, 0>> THEN raise(page, "AssertionError")
        ELSE IF tm # <<1, 0, 0, 1, x, y>> THEN raise(page, "AssertionError")
        ELSE IF __contains__(y_company_info, y) THEN return(page)
        ELSE IF __contains__(y_statement_info, y)
        THEN IF 59 <= x /\ x <= 61 /\ 708 <= y /\ y <= 710
             THEN IF Len(words) # 3 THEN raise(page, "ValueError")
                  ELSE IF months = {} THEN raise(page, "KeyError")
                  ELSE IF ~year.ok THEN raise(page, "ValueError")
                  ELSE IF ~day.ok THEN raise(page, "ValueError")
                  ELSE IF /\ 1 <= year.val /\ year.val <= 9999
                          /\ 1 <= day.val /\ day.val <= DaysInMonth(year.val, month)
                  THEN return([page EXCEPT !.date = Some(Date(year.val, month, day.val))])
                  ELSE raise(page, "ValueError")
             ELSE IF 410 <= x /\ x <= 412 /\ 708 <= y /\ y <= 710
             THEN IF ~nr.ok THEN raise(page, "ValueError")
                  ELSE IF nr.val # page.nr
                  THEN raise([page EXCEPT !.page_nr = Some(nr.val)], "AssertionError")
                  ELSE return([page EXCEPT !.page_nr = Some(nr.val)])
             ELSE IF 420 <= x /\ 708 <= y /\ y <= 710
             THEN IF ~total.ok THEN raise(page, "ValueError")
                  ELSE return([page EXCEPT !.total_pages = Some(total.val)])
             ELSE return(page)
        ELSE IF __contains__(y_main_table, y)
        THEN IF __contains__(y_header, y) THEN return(page)
             ELSE IF columns = {} THEN raise(page, "AssertionError")
             ELSE return([page EXCEPT !.table =
                            IF y \in DOMAIN @ THEN [@ EXCEPT ![y][column] = text]
                            ELSE @ @@ (y :> [blank EXCEPT ![column] = text])])
        ELSE IF __contains__(y_footer_info, y) THEN return(page)
        ELSE raise(page, "AssertionError")

MaxFragments == 2

\* The text fragments pypdf may call the visitor with: a cell of the table at
\* each edge of a narrow, of a wide and of the last column, texts the visitor
\* passes over in a font size and under matrices it would not accept, a text
\* at the edges of the bands of the page, texts in the wrong font size or
\* under a matrix that is not the identity, and the date, the page number
\* and the number of pages of the statement
Fragments ==
    LET identity == <<1, 0, 0, 1, 0, 0>>
        at(x, y) == <<1, 0, 0, 1, x, y>>
        frag(text, cm, tm, font_size) ==
            [text |-> text, cm |-> cm, tm |-> tm, font_size |-> font_size]
        edges == UNION { { COLUMNS[c].x_interval.low - 1, COLUMNS[c].x_interval.low,
                           COLUMNS[c].x_interval.high - 1, COLUMNS[c].x_interval.high } :
                         c \in {1, 6, 9} }
        passed == { <<" ", " ">>, DENYLIST[1], DENYLIST[5] \o <<".">>,
                    Cell.saldo, Cell.machtiging }
    IN  { frag(Cell.CITY, identity, at(x, 621), 8) : x \in edges }
        \cup { frag(Cell.NLD, identity, at(363, 609), 8),
               frag(Cell.nearly, identity, at(60, 621), 8),
               frag(<<" ", " ">>, identity, at(60, 621), 8),
               frag(Cell.CITY, <<2, 0, 0, 2, 0, 0>>, at(60, 621), 6),
               frag(Cell.CITY, <<2, 0, 0, 2, 0, 0>>, at(60, 621), 8),
               frag(Cell.CITY, identity, <<2, 0, 0, 2, 60, 621>>, 8),
               frag(Cell.CITY, identity, at(60, 621), 10) }
        \cup { frag(t, <<2, 0, 0, 2, 0, 0>>, at(300, 650), 10) : t \in passed }
        \cup { frag(Cell.CITY, identity, at(60, y), 8) :
                 y \in {0, 125, 126, 632, 633, 645, 721, 755} }
        \cup { frag(t, identity, at(60, 709), 8) : t \in {Cell.datum, Cell.datum_foo} }
        \cup { frag(<<"1">>, identity, at(411, 709), 8),
               frag(Cell.van, identity, at(507, 709), 8) }

\* Page(nr): no date, no page number, no number of pages, an empty table
VisitorInit ==
    /\ vs_page \in { [nr |-> nr, date |-> None, page_nr |-> None, total_pages |-> None,
                      table |-> <<>>] : nr \in {1, 2} }
    /\ vs_before = vs_page
    /\ vs_arg = <<>>
    /\ vs_ret = Pending
    /\ vs_calls = 0
    /\ vs_pc = "open"

\* page.extract_text(visitor_text=p.visitor) calls the visitor with the next
\* text fragment of the page; an exception of the visitor ends the reading
VisitText ==
    /\ vs_pc = "open" /\ vs_calls < MaxFragments
    /\ \E f \in Fragments :
       \E r \in {visitor(vs_page, f.text, f.cm, f.tm, f.font_size)} :
          /\ vs_arg' = f
          /\ vs_before' = vs_page
          /\ vs_page' = r.page
          /\ vs_ret' = r.ret
          /\ vs_pc' = IF r.ret.ok THEN "open" ELSE "failed"
    /\ vs_calls' = vs_calls + 1
    /\ UNCHANGED <<rjVars, pdVars, tsvVars, eqVars, dsVars, mfVars, cdVars, pgVars>>
----------------------------------------------------------------------------
(* Specifications *)

RejoinIdle == rj_t = <<>> /\ rj_s = <<>> /\ rj_ret = Pending /\ rj_pc = "idle"

ParseIdle == pd_gen = <<>> /\ pd_s = <<>> /\ pd_ret = Pending /\ pd_pc = "idle"

TsvIdle ==
    /\ file = <<>> /\ lineno = 1 /\ order = 0 /\ out = <<>>
    /\ tsv_err = "none" /\ tsv_pc = "idle"

EqIdle == eq_a = None /\ eq_b = None /\ eq_ret = FALSE /\ eq_pc = "idle"

DescIdle ==
    /\ ds_line = <<>> /\ ds_t = None /\ ds_ref = None /\ ds_calls = 0
    /\ ds_ret = Pending /\ ds_hist = None /\ ds_ops = 0 /\ ds_pc = "idle"

MoneyIdle == mf_m = None /\ mf_ret = Pending /\ mf_pc = "idle"

DateIdle == cd_date = None /\ cd_text = <<>> /\ cd_ret = Pending /\ cd_pc = "idle"

PdfIdle ==
    /\ pg_pages = <<>> /\ pg_table = <<>> /\ pg_groups = <<>> /\ pg_k = 0 /\ pg_row = 0
    /\ pg_card = None /\ pg_out = <<>> /\ pg_from = <<>> /\ pg_err = "none"
    /\ pg_pc = "idle"

VisitorIdle ==
    /\ vs_page = <<>> /\ vs_before = <<>> /\ vs_arg = <<>> /\ vs_ret = Pending
    /\ vs_calls = 0 /\ vs_pc = "idle"

\* read_tsv consumed to its end over one file
Init == TsvInit /\ RejoinIdle /\ ParseIdle /\ EqIdle /\ DescIdle /\ MoneyIdle /\ DateIdle /\ PdfIdle /\ VisitorIdle

Next ==
    \/ SkipComment
    \/ SkipBlank
    \/ YieldRow
    \/ RowRaises
    \/ EndOfFile

Spec == Init /\ [][Next]_vars

\* rejoin_description applied to one argument
RejoinNext == RejoinCall

InitRejoin == RejoinInit /\ ParseIdle /\ TsvIdle /\ EqIdle /\ DescIdle /\ MoneyIdle /\ DateIdle /\ PdfIdle /\ VisitorIdle

SpecRejoin == InitRejoin /\ [][RejoinNext]_vars

\* parse_description applied to one argument
ParseNext == ParseCall

InitParse == ParseInit /\ RejoinIdle /\ TsvIdle /\ EqIdle /\ DescIdle /\ MoneyIdle /\ DateIdle /\ PdfIdle /\ VisitorIdle

SpecParse == InitParse /\ [][ParseNext]_vars

\* Transaction.__eq__ applied to two Transactions
EqNext == EqCall

InitEq == EqInit /\ RejoinIdle /\ ParseIdle /\ TsvIdle /\ DescIdle /\ MoneyIdle /\ DateIdle /\ PdfIdle /\ VisitorIdle

SpecEq == InitEq /\ [][EqNext]_vars

\* A Transaction read from a row, its desc accessed and its description assigned
InitDesc == DescInit /\ RejoinIdle /\ ParseIdle /\ TsvIdle /\ EqIdle /\ MoneyIdle /\ DateIdle /\ PdfIdle /\ VisitorIdle

DescNext ==
    \/ DescRead
    \/ AccessDesc
    \/ AssignDescription

SpecDesc == InitDesc /\ [][DescNext]_vars


\* money_format applied to one Money
MoneyNext == MoneyFormatCall

InitMoney == MoneyFormatInit /\ RejoinIdle /\ ParseIdle /\ TsvIdle /\ EqIdle /\ DescIdle /\ DateIdle /\ PdfIdle /\ VisitorIdle

SpecMoney == InitMoney /\ [][MoneyNext]_vars

\* Page.convert_date applied to one text
DateNext == ConvertDateCall

InitDate == ConvertDateInit /\ RejoinIdle /\ ParseIdle /\ TsvIdle /\ EqIdle /\ DescIdle /\ MoneyIdle /\ PdfIdle /\ VisitorIdle

SpecDate == InitDate /\ [][DateNext]_vars

\* get_transactions_from_pages consumed to its end over the pages of one statement
PdfNext ==
    \/ ConcatPages
    \/ ProcessGroup
    \/ EndOfTable

InitPdf ==
    PdfInit /\ RejoinIdle /\ ParseIdle /\ TsvIdle /\ EqIdle /\ DescIdle /\ MoneyIdle /\ DateIdle /\ VisitorIdle

SpecPdf == InitPdf /\ [][PdfNext]_vars

\* get_transactions_from_pages over pages that may be out of order or dated
\* differently
InitPdfPages ==
    PdfPagesInit /\ RejoinIdle /\ ParseIdle /\ TsvIdle /\ EqIdle /\ DescIdle /\ MoneyIdle /\ DateIdle /\ VisitorIdle

SpecPdfPages == InitPdfPages /\ [][PdfNext]_vars

\* A document of either kind is read to its end or to its first exception:
\* a file by read_tsv, or the pages of a statement by
\* get_transactions_from_pages
DocumentNext ==
    \/ Next
    \/ PdfNext

InitDocument ==
    \/ Init
    \/ InitPdfPages

SpecDocument == InitDocument /\ [][DocumentNext]_vars

\* The visitor of a Page called with the text fragments of the page
VisitorNext == VisitText

InitVisitor ==
    VisitorInit /\ RejoinIdle /\ ParseIdle /\ TsvIdle /\ EqIdle /\ DescIdle /\ MoneyIdle /\ DateIdle /\ PdfIdle

SpecVisitor == InitVisitor /\ [][VisitorNext]_vars
----------------------------------------------------------------------------
(* Claims about rejoin_description *)

\* C1: rejoin_description returns its argument unchanged for every string
\* that starts with "/".
C1_SlashUnchanged ==
    (rj_pc = "done" /\ StartsWith(rj_s, <<"/">>))
        => (rj_ret.ok /\ rj_ret.val = rj_s)

\* A slash-prefixed argument longer than one display line was passed.
C1_Witness ==
    /\ rj_pc = "done"
    /\ StartsWith(rj_s, <<"/">>)
    /\ Len(rj_s) > HeadLen + LineSpLen
    /\ rj_ret.ok

\* The text rj_t was cut into a head and display lines and joined with spaces.
Rejoined == rj_pc = "done" /\ rj_s = JoinLines(rj_t) /\ ~StartsWith(rj_t, <<"/">>)

\* C2 as stated, for a text that has a line after its head: rejoin_description
\* of the joined text returns exactly the text, trailing spaces included.
C2_RoundTripExact ==
    (Rejoined /\ Len(rj_t) > HeadLen) => (rj_ret.ok /\ rj_ret.val = rj_t)

\* C2, amended: for a text of more than 32 characters that does not start
\* with "/", rejoin_description of the joined text returns the first 32
\* characters of the text followed by the rest of the text without its
\* trailing whitespace; a text of at most 32 characters has no joined space
\* at index 32 and the call raises.
C2_RoundTripStripped ==
    Rejoined =>
        IF Len(rj_t) > HeadLen
        THEN /\ rj_ret.ok
             /\ rj_ret.val = Slice(rj_t, 0, HeadLen) \o RStrip(SliceFrom(rj_t, HeadLen))
        ELSE ~rj_ret.ok

\* A text of a head and more than two display lines that ends in a space was
\* joined and rejoined.
C2_Witness ==
    /\ Rejoined
    /\ Len(rj_t) > HeadLen + 2 * LineLen
    /\ rj_t[Len(rj_t)] = " "
    /\ rj_ret.ok
    /\ rj_ret.val # rj_t

\* The argument has no space at index 32, or a full display line of the
\* remainder that is not its last is not followed by a space.
BadBoundary(s) ==
    \/ Len(s) <= HeadLen
    \/ s[HeadLen + 1] # " "
    \/ LET rem == RStrip(SliceFrom(s, HeadLen + 1)) IN
       \E k \in 1..(Len(rem) \div LineSpLen) : rem[k * LineSpLen] # " "

\* C3: rejoin_description raises, and returns no string, for every argument
\* not starting with "/" whose 32-character head is not followed by a space
\* or in which a 64-character chunk of the remainder other than the last is
\* not followed by a space.
C3_BadBoundaryRaises ==
    (rj_pc = "done" /\ ~StartsWith(rj_s, <<"/">>) /\ BadBoundary(rj_s))
        => ~rj_ret.ok

\* The head was followed by a space and the first display line too, and the
\* second display line was not: the call raised.
C3_Witness ==
    /\ rj_pc = "done"
    /\ Len(rj_s) > HeadLen + 2 * LineSpLen + 1
    /\ rj_s[HeadLen + 1] = " "
    /\ rj_s[HeadLen + 1 + LineSpLen] = " "
    /\ rj_s[HeadLen + 1 + 2 * LineSpLen] # " "
    /\ ~StartsWith(rj_s, <<"/">>)
    /\ ~rj_ret.ok

----------------------------------------------------------------------------
(* Claims about parse_description *)

\* C4: every mapping parse_description returns, whatever the argument and the
\* branch taken, has the key "type".
C4_TypeKey ==
    (pd_pc = "done" /\ pd_ret.ok) => Key.type \in DOMAIN pd_ret.val

\* A slash-delimited argument was decoded into a type and two more fields.
C4_Witness ==
    /\ pd_pc = "done"
    /\ StartsWith(pd_s, <<"/">>)
    /\ pd_ret.ok
    /\ Key.type \in DOMAIN pd_ret.val
    /\ Cardinality(DOMAIN pd_ret.val) > 2

\* The argument matches none of the known triggers.
NoTrigger(s) ==
    LET head == RStrip(Slice(s, 0, BandLen)) IN
    /\ ~StartsWith(s, <<"/">>)
    /\ ~StartsWith(s, Txt.ABN_AMRO_Bank)
    /\ ~StartsWith(head, <<"B", "E", "A", " ">>)
    /\ ~StartsWith(head, <<"B", "E", "A", ",", " ">>)
    /\ ~StartsWith(head, <<"G", "E", "A", ",", " ">>)
    /\ ~StartsWith(head, Txt.SEPA_)
    /\ ~StartsWith(head, Txt.CREDIT_INTEREST)
    /\ ~StartsWith(head, Txt.Basic_interest)
    /\ ~StartsWith(head, Txt.Maandpremie_)
    /\ ~StartsWith(head, Txt.Uitbetaling_pakketkorting)
    /\ ~StartsWith(head, Txt.PAKKETVERZ_POLISNR)

\* C5 as stated: for an argument that matches no trigger parse_description
\* returns type = the first 32 characters and description = the remainder.
C5_FallbackVerbatim ==
    (pd_pc = "done" /\ NoTrigger(pd_s)) =>
        /\ pd_ret.ok
        /\ pd_ret.val = (Key.type :> Slice(pd_s, 0, BandLen))
                            @@ (Key.description :> SliceFrom(pd_s, BandLen))

\* C5, amended: for an argument that matches no trigger, shorter than 32
\* characters or not, parse_description does not raise and returns exactly
\* type = the first 32 characters without their trailing whitespace and
\* description = the remainder without its trailing whitespace.
C5_FallbackStripped ==
    (pd_pc = "done" /\ NoTrigger(pd_s)) =>
        /\ pd_ret.ok
        /\ pd_ret.val = (Key.type :> RStrip(Slice(pd_s, 0, BandLen)))
                            @@ (Key.description :> RStrip(SliceFrom(pd_s, BandLen)))

\* An unknown format whose first 32 characters end in spaces was decoded into
\* a type and a description that is not empty.
C5_Witness ==
    /\ pd_pc = "done"
    /\ NoTrigger(pd_s)
    /\ Len(pd_s) > BandLen
    /\ pd_s[BandLen] = " "
    /\ pd_ret.ok
    /\ pd_ret.val[Key.description] # <<>>

\* No piece of the value after its first is a tag.
PiecesFree(v) ==
    LET ps == SplitOn(v, {"/"}) IN \A i \in 2..Len(ps) : ps[i] \notin SlashTags

\* Pairs /K1/V1/K2/V2... whose values may hold "/" but no tag after a "/"
FreePairs(pairs) ==
    pairs # <<>> /\ \A i \in 1..Len(pairs) : PiecesFree(pairs[i][2])

\* K1, V1, K2, V2, ...
Flat(pairs) ==
    [i \in 1..(2 * Len(pairs)) |-> pairs[(i + 1) \div 2][IF i % 2 = 1 THEN 1 ELSE 2]]

\* The last pair of the tag
LastOf(pairs, tag) ==
    CHOOSE i \in 1..Len(pairs) :
        pairs[i][1] = tag /\ \A j \in (i + 1)..Len(pairs) : pairs[j][1] # tag

Discarded == {Tag.ORDP, Tag.ID}

\* The value of a pair as the mapping shows it
Shown(tag, v) ==
    IF tag = Tag.TRTP /\ RStrip(v) = Txt.iDEAL THEN Txt.SEPA_iDEAL ELSE RStrip(v)

\* C6: in "/K1/V1/K2/V2/..." with every Ki a tag, a value Vi that contains
\* "/" with no tag among its pieces after the first is kept whole, its pieces
\* re-joined with "/", and the pairs after it are decoded under their own
\* keys: the token list is K1, V1, K2, V2, ..., and a mapping that is
\* returned shows every value that is not discarded under the key of its tag.
C6_SlashInValue ==
    (pd_pc = "done" /\ pd_gen.kind = "slash" /\ FreePairs(pd_gen.items)) =>
        LET pairs == pd_gen.items IN
        /\ SlashParts(pd_s) = Ok(Flat(pairs))
        /\ pd_ret.ok =>
              \A i \in 1..Len(pairs) :
                  LET tag == pairs[i][1] IN
                  tag \notin Discarded =>
                      /\ key_map[tag] \in DOMAIN pd_ret.val
                      /\ pd_ret.val[key_map[tag]]
                            = Shown(tag, pairs[LastOf(pairs, tag)][2])

\* A value with "/" in it was followed by another pair, and both are in the
\* mapping returned.
C6_Witness ==
    /\ pd_pc = "done"
    /\ pd_gen.kind = "slash"
    /\ FreePairs(pd_gen.items)
    /\ pd_ret.ok
    /\ Len(pd_gen.items) = 3
    /\ pd_gen.items[1] = <<Tag.TRTP, Val.SEPA_OVERBOEKING>>
    /\ pd_gen.items[2] = <<Tag.REMI, Val.FOO_BAR_dates>>
    /\ pd_gen.items[3] = <<Tag.IBAN, Val.NL01INGB>>
    /\ pd_ret.val[Key.Omschrijving] = Val.FOO_BAR_dates
    /\ pd_ret.val[Key.IBAN] = Val.NL01INGB

\* The keys a slash-delimited description is decoded into
SlashKeys ==
    {Key.type, Key.Incassant, Key.Naam, Key.Omschrijving, Key.Machtiging, Key.Kenmerk, Key.IBAN, Key.BIC}

\* The pairs without those of ORDP and ID
Undiscarded(pairs) == SelectSeq(pairs, LAMBDA kv : kv[1] \notin Discarded)

\* C7: the keys of the mapping returned for a slash-delimited argument are
\* among type, Incassant, Naam, Omschrijving, Machtiging, Kenmerk, IBAN and
\* BIC, and the values of ORDP and ID are discarded: the mapping is the one
\* returned for the argument without its ORDP and ID pairs.
C7_SlashKeys ==
    (pd_pc = "done" /\ StartsWith(pd_s, <<"/">>) /\ pd_ret.ok) =>
        /\ DOMAIN pd_ret.val \subseteq SlashKeys
        /\ (pd_gen.kind = "slash" /\ FreePairs(pd_gen.items)) =>
              pd_ret = parse_description(SlashText(Undiscarded(pd_gen.items)))

\* An argument with an ID pair of eight digits was decoded.
C7_Witness ==
    /\ pd_pc = "done"
    /\ pd_gen.kind = "slash"
    /\ FreePairs(pd_gen.items)
    /\ \E i \in 1..Len(pd_gen.items) : pd_gen.items[i] = <<Tag.ID, Val.n99999999>>
    /\ pd_ret.ok
    /\ \A k \in DOMAIN pd_ret.val : pd_ret.val[k] # RStrip(Val.n99999999)

\* The tail cut into consecutive bands of 32 characters
BandCount(tail) == (Len(tail) + BandLen - 1) \div BandLen

BandAt(tail, i) == SubSeq(tail, BandLen * (i - 1) + 1, Min(BandLen * i, Len(tail)))

\* The keys k with which a band begins as "k: "
BandKeys(band) == {k \in SepaKeys : StartsWith(band, k \o <<":", " ">>)}

\* The bands that start a pair
StartBands(tail) == {i \in 1..BandCount(tail) : BandKeys(BandAt(tail, i)) # {}}

KeyAt(tail, i) == CHOOSE k \in BandKeys(BandAt(tail, i)) : TRUE

\* The first band after band i that starts a pair, or the one after the last
NextStart(tail, i) ==
    LET later == {j \in StartBands(tail) : j > i} IN
    IF later = {} THEN BandCount(tail) + 1
    ELSE CHOOSE j \in later : \A k \in later : j <= k

\* What follows "k: " in band i, up to the next band that starts a pair
ValueAt(tail, i) ==
    SubSeq(tail, BandLen * (i - 1) + Len(KeyAt(tail, i)) + 3,
           Min(BandLen * (NextStart(tail, i) - 1), Len(tail)))

\* The last band that starts a pair of key k
LastStart(tail, k) ==
    CHOOSE i \in StartBands(tail) :
        /\ KeyAt(tail, i) = k
        /\ \A j \in StartBands(tail) : (j > i) => KeyAt(tail, j) # k

SepaExpected(head, tail) ==
    [k \in {Key.type} \cup {KeyAt(tail, i) : i \in StartBands(tail)} |->
        IF k = Key.type THEN head ELSE Strip(ValueAt(tail, LastStart(tail, k)))]

\* C8: for an argument whose head starts with "SEPA ", the tail is cut into
\* consecutive 32-character bands; a band that begins with "<Key>: " starts a
\* pair, every other band is appended as it is to the value of the pair
\* started last, and the values returned have no whitespace at either end.
C8_SepaBands ==
    (pd_pc = "done" /\ StartsWith(RStrip(Slice(pd_s, 0, BandLen)), Txt.SEPA_)) =>
        LET head == RStrip(Slice(pd_s, 0, BandLen))
            tail == RStrip(SliceFrom(pd_s, BandLen))
        IN  /\ (BandCount(tail) = 0 \/ 1 \in StartBands(tail)) => pd_ret.ok
            /\ pd_ret.ok => pd_ret.val = SepaExpected(head, tail)

\* Two pairs were started and a band that starts none, and is not blank,
\* followed one of them.
C8_Witness ==
    /\ pd_pc = "done"
    /\ StartsWith(RStrip(Slice(pd_s, 0, BandLen)), Txt.SEPA_)
    /\ pd_ret.ok
    /\ LET tail == RStrip(SliceFrom(pd_s, BandLen)) IN
       /\ Cardinality(StartBands(tail)) >= 2
       /\ \E i \in 1..BandCount(tail) :
             /\ i \notin StartBands(tail)
             /\ RStrip(BandAt(tail, i)) # <<>>
       /\ Key.Omschrijving \in DOMAIN pd_ret.val
       /\ Len(pd_ret.val[Key.Omschrijving]) > BandLen - Len(Key.Omschrijving) - 2


\* No white space at the end of a str
NoTrailingSpace(v) == v = <<>> \/ v[Len(v)] \notin WS

\* C23: every value of the mapping parse_description returns has no trailing
\* white space, in every branch, the legacy insurance one with an empty or
\* blank text after the first 32 characters included.
C23_ValuesRightStripped ==
    (pd_pc = "done" /\ pd_ret.ok) =>
        \A k \in DOMAIN pd_ret.val : NoTrailingSpace(pd_ret.val[k])

\* The 32-character bands of what follows the first 32 characters of pd_s,
\* the white space at its end removed
ArgBands ==
    LET rest == IF Len(pd_s) > BandLen THEN SubSeq(pd_s, BandLen + 1, Len(pd_s)) ELSE <<>>
        n    == IF \E i \in 1..Len(rest) : rest[i] \notin WS
                THEN CHOOSE i \in 1..Len(rest) :
                        /\ rest[i] \notin WS
                        /\ \A j \in (i + 1)..Len(rest) : rest[j] \in WS
                ELSE 0
    IN  [b \in 1..((n + BandLen - 1) \div BandLen) |->
            SubSeq(rest, (b - 1) * BandLen + 1,
                   IF b * BandLen < n THEN b * BandLen ELSE n)]

\* The bands of ArgBands that are not blank
FilledBands == {b \in DOMAIN ArgBands : \E i \in 1..Len(ArgBands[b]) : ArgBands[b][i] # " "}

\* The band begins with "<Key>: ", Key one of the eight names of a SEPA field
BeginsWithKey(band) ==
    \E k \in {Key.Incassant, Key.BIC, Key.Naam, Key.Machtiging,
              Key.Omschrijving, Key.IBAN, Key.Kenmerk, Key.Voor} :
        /\ Len(band) >= Len(k) + 2
        /\ SubSeq(band, 1, Len(k) + 2) = k \o <<":", " ">>

\* The first 32 characters of pd_s, the white space at their end removed
ArgHead == RStrip(SubSeq(pd_s, 1, IF Len(pd_s) < BandLen THEN Len(pd_s) ELSE BandLen))

\* The head begins with "SEPA " and the first band that is not blank has no
\* key
OrphanFirstBand ==
    /\ Len(ArgHead) >= 5 /\ SubSeq(ArgHead, 1, 5) = <<"S", "E", "P", "A", " ">>
    /\ FilledBands # {}
    /\ \E b \in FilledBands :
          /\ \A c \in FilledBands : b <= c
          /\ ~BeginsWithKey(ArgBands[b])

\* C30: parse_description of a text that begins with "SEPA " and whose first
\* band after the head that is not blank does not begin with "<Key>: "
\* raises; it returns no mapping.
C30_OrphanBandRaises ==
    (pd_pc = "done" /\ OrphanFirstBand) => ~pd_ret.ok

\* A continuation band right after the head: pop from the empty list
C30_Witness ==
    /\ pd_pc = "done"
    /\ OrphanFirstBand
    /\ 1 \in FilledBands
    /\ pd_ret = Raise("IndexError")
----------------------------------------------------------------------------
(* Claims about read_tsv and Transaction.__eq__ *)

\* The lines of file before lineno that filter_comments passed over
SkippedBefore(p) == {i \in 1..(p - 1) : IsComment(file[i]) \/ IsBlank(file[i])}

\* C9: the k-th Transaction read_tsv yields has order k, so the orders are
\* 1..n in increasing order, and a comment line or an empty line uses up no
\* order number: while nothing is raised the counter is the number of rows
\* read, whatever number of lines was passed over.
C9_OrderIsRowCount ==
    /\ \A k \in 1..Len(out) : out[k].order = k
    /\ tsv_err = "none" =>
          /\ order = Len(out)
          /\ order = (lineno - 1) - Cardinality(SkippedBefore(lineno))

\* Two rows were yielded with passed-over lines before the first and between them
C9_Witness ==
    /\ Len(out) = 2
    /\ 1 \in SkippedBefore(lineno)
    /\ \E i \in SkippedBefore(lineno) :
          /\ i > 1
          /\ \E j \in 1..(i - 1) : j \notin SkippedBefore(lineno)
          /\ \E j \in (i + 1)..(lineno - 1) : j \notin SkippedBefore(lineno)

\* The fields that identify a Transaction, and the ones that do not
IdentityFields == {"account", "date", "currency", "amount", "start_saldo", "end_saldo"}

IgnoredFields == {"order", "description"}

\* The two Transactions agree on the field f
Agree(a, b, f) ==
    IF f \in {"amount", "start_saldo", "end_saldo"} THEN MoneyEq(a[f], b[f])
    ELSE IF f = "currency" THEN CurrencyEq(a[f], b[f])
    ELSE a[f] = b[f]

\* C10: a == b exactly when a and b agree on account, date, currency, amount,
\* start_saldo and end_saldo; order and description have no part in it.
C10_EqOnIdentityFields ==
    eq_pc = "done" => (eq_ret <=> \A f \in IdentityFields : Agree(eq_a, eq_b, f))

\* Two Transactions that differ in order and description, and in the notation
\* of the amount, were compared and found equal
C10_Witness ==
    /\ eq_pc = "done"
    /\ eq_ret
    /\ \A f \in IgnoredFields : ~Agree(eq_a, eq_b, f)
    /\ eq_a.amount # eq_b.amount


\* The rows of file before line p: the lines filter_comments lets through
RowsBeforeLine(p) == {i \in 1..(p - 1) : ~IsComment(file[i]) /\ ~IsBlank(file[i])}

\* The groups before the k-th that are a transaction: the first row has the
\* nine cells of the table
TransactionsBeforeGroup(k) == {g \in 1..(k - 1) : Len(pg_groups[g][1]) = 9}

\* C22 as stated: when read_tsv or get_transactions_from_pages fails on a
\* document, the consumer has got no Transaction of that document.
C22_NothingDeliveredOnFailure ==
    /\ tsv_pc = "failed" => out = <<>>
    /\ pg_pc = "failed" => pg_out = <<>>

\* C22: read_tsv and get_transactions_from_pages fail when they reach the
\* offending row or group of rows, and yield nothing after it: by then the
\* consumer has got one Transaction for each row, or each group of rows that
\* is a transaction, before the offending one.  A failure of part 1 of
\* get_transactions_from_pages comes before every Transaction.
C22_FailsAtOffendingUnit ==
    /\ tsv_pc = "failed" =>
          /\ lineno - 1 \in RowsBeforeLine(lineno)
          /\ Len(out) = Cardinality(RowsBeforeLine(lineno - 1))
    /\ pg_pc = "failed" =>
          IF pg_k = 0 THEN pg_out = <<>>
          ELSE /\ ProcessRows(pg_groups[pg_k], pg_card).kind = "raise"
               /\ Len(pg_out) = Cardinality(TransactionsBeforeGroup(pg_k))

\* read_tsv failed on the third row of a file, after it yielded two
C22_Witness ==
    /\ tsv_pc = "failed"
    /\ Len(out) = 2
    /\ Cardinality(RowsBeforeLine(lineno)) = 3
----------------------------------------------------------------------------
(* Transaction.desc and the description read_tsv stores *)

\* The description field of the row the Transaction is read from
RawDescription == CsvFields(ds_line)[Col("description")]

\* C11: while description is not assigned again, parse_description is called
\* on the first access of desc only, and every later access returns the
\* cached value, which is what the first access returned.
C11_MemoSingleSlot ==
    ds_pc = "live" =>
        /\ ds_hist.late = 0
        /\ (ds_hist.last = "access" /\ ds_hist.since >= 2) =>
              /\ ds_ret = Ok(ds_t._desc)
              /\ ds_hist.first.ok => ds_ret = ds_hist.first

\* Three accesses in a row, the first one returned a mapping
C11_Witness ==
    /\ ds_pc = "live"
    /\ ds_hist.last = "access"
    /\ ds_hist.since >= 3
    /\ ds_hist.first.ok
    /\ ds_hist.first.val # None
    /\ ds_calls >= 1

\* C12: after any assignments of description and accesses of desc, an access
\* that returns gives the mapping parse_description makes of the description
\* current at that access.
C12_CacheCoherent ==
    (ds_pc = "live" /\ ds_hist.last = "access" /\ ds_ret.ok) =>
        \E r \in {parse_description(ds_t.description)} :
            r.ok /\ ds_ret.val = Some(r.val)

\* C13 as stated: read_tsv runs neither rejoin_description nor
\* parse_description, so every row is emitted, with its description as it
\* is in the file.
C13_RejoinAndDecodeLazy ==
    ds_pc # "read" =>
        /\ ds_pc = "live"
        /\ ds_calls = 0 /\ ds_ref.description = 0 => ds_t.description = RawDescription

\* C13: read_tsv runs rejoin_description and not parse_description.  A row
\* whose description breaks the boundary raises in read_tsv and is not
\* emitted; an emitted Transaction holds the rejoined description, and
\* parse_description is called on the first access of desc, not before.
C13_OnlyDecodeLazy ==
    ds_pc # "read" =>
        \E rj \in {rejoin_description(RawDescription)} :
            /\ ~rj.ok => ds_pc = "failed" /\ ds_ret = rj
            /\ ds_pc = "live" =>
                  /\ rj.ok
                  /\ ds_ref.description = 0 => ds_t.description = rj.val
                  /\ ds_hist.accesses = 0 =>
                        ds_calls = 0 /\ ds_t._desc = None /\ ds_t._desc_str = None
                  /\ ds_hist.accesses >= 1 => ds_calls >= 1

\* The row's description breaks the boundary and read_tsv raised
C13_Witness ==
    /\ ds_pc = "failed"
    /\ ~ds_ret.ok
    /\ ~StartsWith(RawDescription, <<"/">>)
    /\ BadBoundary(RawDescription)


\* C28: when an access of desc raises because parse_description fails on the
\* description, every later access, the description not assigned in between,
\* raises too: none returns None or a mapping.
C28_RaiseRepeats ==
    (ds_pc = "live" /\ ds_hist.last = "access" /\ ds_hist.since >= 2
        /\ ~ds_hist.first.ok) => ~ds_ret.ok
----------------------------------------------------------------------------
(* money_format *)

\* The text without its sign
Magnitude(s) == IF s # <<>> /\ s[1] = "-" THEN Tail(s) ELSE s

\* C14: money_format returns digits, a "." and exactly two digits, with a
\* "-" before them for an amount below zero and nothing else (no thousands
\* separator), and the number so written is within half a cent of the amount.
C14_TwoPlacesNearestCent ==
    mf_pc = "done" =>
        \E s \in {mf_ret.val} : \E u \in {Magnitude(mf_ret.val)} :
            /\ (s # u) = (mf_m.amount.coef < 0)
            /\ Len(u) >= 4
            /\ u[Len(u) - 2] = "."
            /\ \A i \in 1..Len(u) : i # Len(u) - 2 => u[i] \in DigitSet
            /\ \E d \in {DecimalParse(s)} :
                  /\ d.ok
                  /\ d.val.scale = 2
                  /\ \E diff \in {d.val.coef * Pow10(mf_m.amount.scale)
                                    - 100 * mf_m.amount.coef} :
                        /\ 2 * diff <= Pow10(mf_m.amount.scale)
                        /\ -2 * diff <= Pow10(mf_m.amount.scale)

\* 1.236 was written as 1.24 and 1000 as 1000.00
C14_Witness ==
    /\ mf_pc = "done"
    /\ \/ mf_m.amount = [coef |-> 1236, scale |-> 3]
             /\ mf_ret = Ok(<<"1", ".", "2", "4">>)
       \/ mf_m.amount = [coef |-> 1000, scale |-> 0]
             /\ mf_ret = Ok(<<"1", "0", "0", "0", ".", "0", "0">>)

\* An amount of a whole number of cents and exactly half a cent more
HalfCent(a) ==
    /\ a.coef >= 0
    /\ a.scale > 2
    /\ 2 * (a.coef % Pow10(a.scale - 2)) = Pow10(a.scale - 2)

\* The whole cents of a
WholeCents(a) == a.coef \div Pow10(a.scale - 2)

\* C15 as stated: c cents and half a cent is written as c + 1 cents, for
\* every c >= 0.
C15_HalfAwayFromZero ==
    (mf_pc = "done" /\ HalfCent(mf_m.amount)) =>
        DecimalParse(mf_ret.val).val.coef = WholeCents(mf_m.amount) + 1

\* C15: c cents and half a cent is written as c + 1 cents when c is odd
\* and as c cents when c is even (half to even).
C15_HalfToEven ==
    (mf_pc = "done" /\ HalfCent(mf_m.amount)) =>
        DecimalParse(mf_ret.val).val.coef =
            IF WholeCents(mf_m.amount) % 2 = 1
            THEN WholeCents(mf_m.amount) + 1
            ELSE WholeCents(mf_m.amount)

\* 0.125 was written as 0.12
C15_Witness ==
    /\ mf_pc = "done"
    /\ mf_m.amount = [coef |-> 125, scale |-> 3]
    /\ HalfCent(mf_m.amount)
    /\ mf_ret = Ok(<<"0", ".", "1", "2">>)

----------------------------------------------------------------------------
(* Page.convert_date *)

\* The day and the month cd_text names
TextDay == ToInt(Words(cd_text)[1])

TextMonth == CHOOSE m \in 1..12 : MONTHS_SHORT[m] = Words(cd_text)[2]

\* The years, of the page's and the one before, that have that day
CandidateYears ==
    {y \in {cd_date.y, cd_date.y - 1} : TextDay <= DaysInMonth(y, TextMonth)}

\* The days between the date of the page and a date
DaysApart(dt) ==
    IF toordinal(cd_date) >= toordinal(dt)
    THEN toordinal(cd_date) - toordinal(dt)
    ELSE toordinal(dt) - toordinal(cd_date)

\* C16: for a text whose day and month make a date in the page's year or the
\* year before, convert_date returns the date of that day and month in one of
\* the two years, the one no further in days from the date of the page.
C16_CloserCandidate ==
    (cd_pc = "done" /\ CandidateYears # {}) =>
        /\ cd_ret.ok
        /\ cd_ret.val.m = TextMonth
        /\ cd_ret.val.d = TextDay
        /\ cd_ret.val.y \in CandidateYears
        /\ \A y \in CandidateYears :
              DaysApart(cd_ret.val) <= DaysApart(Date(y, TextMonth, TextDay))


\* C29: convert_date is total on calendar days: for every text whose day and
\* month make a date in the page's year or in the year before, 29 February
\* of a leap year included, it returns a date and does not raise.
C29_TotalOnCalendarDays ==
    (cd_pc = "done" /\ CandidateYears # {}) => cd_ret.ok
----------------------------------------------------------------------------
(* group_related_rows and get_transactions_from_pages *)

\* A row whose first cell is a date or starts with "Uw Card"
StarterRow(row) == IsDateCell(row[1]) \/ StartsWith(row[1], Cell.Uw_Card)

\* C17: the groups of group_related_rows, one after the other, are the rows
\* of the table in their order; no group is empty; every group after the
\* first begins with a starter row, and no other row of a group is one.
C17_GroupsPartition ==
    /\ Concat(pg_groups) = pg_table
    /\ \A k \in 1..Len(pg_groups) :
          /\ Len(pg_groups[k]) > 0
          /\ k > 1 => StarterRow(pg_groups[k][1])
          /\ \A j \in 2..Len(pg_groups[k]) : ~StarterRow(pg_groups[k][j])

\* A table that begins with a row that is no starter, cut into three groups
\* or more, one of them of two rows or more
C17_Witness ==
    /\ pg_pc = "loop"
    /\ Len(pg_groups) >= 3
    /\ ~StarterRow(pg_table[1])
    /\ \E k \in 1..Len(pg_groups) : Len(pg_groups[k]) >= 2

\* The digits after "Uw Card met als laatste vier cijfers " in a text
DigitsAfterMarker(text) ==
    LET rest == SubSeq(text, Len(Cell.Uw_Card_met) + 1, Len(text))
        n == CHOOSE n \in 0..Len(rest) :
                /\ \A i \in 1..n : rest[i] \in DigitSet
                /\ n < Len(rest) => rest[n + 1] \notin DigitSet
    IN  SubSeq(rest, 1, n)

\* Rows j and j + 1 of the table are a change of card: two rows of one cell,
\* the first with the marker text and digits
MarkerAt(j) ==
    /\ j + 1 <= Len(pg_table)
    /\ Len(pg_table[j]) = 1
    /\ Len(pg_table[j + 1]) = 1
    /\ StartsWith(pg_table[j][1], Cell.Uw_Card_met)
    /\ DigitsAfterMarker(pg_table[j][1]) # <<>>

\* The card number of the last change of card wholly before row n
CardBefore(n) ==
    LET before == {j \in 1..(n - 2) : MarkerAt(j)}
    IN  IF before = {} THEN None
        ELSE Some(DigitsAfterMarker(
                 pg_table[CHOOSE j \in before : \A i \in before : i <= j][1]))

\* C18: every Transaction yielded has for card_number the digits of the last
\* change of card before its rows in the table of all pages, None without
\* one before it; no Transaction is made of the rows of a change of card.
C18_CardOfLastMarker ==
    \A i \in 1..Len(pg_out) :
        /\ pg_out[i].card_number = CardBefore(pg_from[i])
        /\ ~MarkerAt(pg_from[i])
        /\ pg_from[i] > 1 => ~MarkerAt(pg_from[i] - 1)

\* A change of card on the first page, another one after it, and on the
\* second page a Transaction that has the number of the later one
C18_Witness ==
    /\ Len(pg_pages) = 2
    /\ \E i \in 1..Len(pg_out) :
          /\ pg_from[i] > Cardinality(DOMAIN pg_pages[1].table)
          /\ pg_out[i].card_number = Some(<<"5", "6", "7", "8">>)
          /\ \E j \in 1..Cardinality(DOMAIN pg_pages[1].table) :
                MarkerAt(j) /\ DigitsAfterMarker(pg_table[j][1]) = <<"1", "2", "3", "4">>

\* C19: every Transaction yielded has foreign_amount and exchange_rate both
\* None or both set.
C19_ForeignAndRateTogether ==
    \A i \in 1..Len(pg_out) :
        (pg_out[i].foreign_amount = None) = (pg_out[i].exchange_rate = None)

\* A Transaction in euros and one in a foreign currency were yielded
C19_Witness ==
    /\ \E i \in 1..Len(pg_out) :
          pg_out[i].foreign_amount = None /\ pg_out[i].exchange_rate = None
    /\ \E i \in 1..Len(pg_out) :
          pg_out[i].foreign_amount # None /\ pg_out[i].exchange_rate # None

\* A group of rows of none of the three shapes taken: more than two rows; a
\* row of one cell with no second row of one cell; a row of nine cells with
\* neither foreign amount nor currency and a second row; one with both and
\* no second row; one with only one of the two; a second row of nine cells
\* with another label than "Wisselkoers " and the currency, or with a cell
\* that has to be blank and is not.
BadShape(rows) ==
    \/ Len(rows) > 2
    \/ Len(rows[1]) = 1 /\ ~(Len(rows) = 2 /\ Len(rows[2]) = 1)
    \/ Len(rows[1]) = 9 /\ rows[1][6] = <<>> /\ rows[1][7] = <<>> /\ Len(rows) >= 2
    \/ Len(rows[1]) = 9 /\ rows[1][6] # <<>> /\ rows[1][7] # <<>> /\ Len(rows) = 1
    \/ Len(rows[1]) = 9 /\ (rows[1][6] = <<>>) # (rows[1][7] = <<>>)
    \/ /\ Len(rows) = 2 /\ Len(rows[1]) = 9 /\ Len(rows[2]) = 9
       /\ \/ rows[2][3] # Cell.Wisselkoers_ \o rows[1][7]
          \/ \E c \in {1, 2, 5, 6, 7, 8, 9} : rows[2][c] # <<>>

\* C20: when the group of rows taken last has none of the three shapes,
\* get_transactions_from_pages has raised, and no Transaction it yielded is
\* made of the rows of that group.
C20_BadShapeRaises ==
    (pg_k >= 1 /\ BadShape(pg_groups[pg_k])) =>
        /\ pg_pc = "failed"
        /\ pg_err # "none"
        /\ \A i \in 1..Len(pg_out) : pg_from[i] <= pg_row - Len(pg_groups[pg_k])

\* After a Transaction was yielded, a row in euros came with a second row
\* and the call raised
C20_Witness ==
    /\ pg_pc = "failed"
    /\ pg_k >= 2
    /\ Len(pg_out) >= 1
    /\ Len(pg_groups[pg_k]) = 2
    /\ Len(pg_groups[pg_k][1]) = 9
    /\ pg_groups[pg_k][1][6] = <<>>
    /\ BadShape(pg_groups[pg_k])


RECURSIVE Downward(_)
\* The numbers of a set, each one lower than the one before it
Downward(S) ==
    IF S = {} THEN <<>>
    ELSE LET top == CHOOSE y \in S : \A z \in S : z <= y
         IN  <<top>> \o Downward(S \ {top})

\* The ys of the rows of page p, from the highest to the lowest
YsDown(p) == Downward(DOMAIN pg_pages[p].table)

\* The row at the i-th highest y of page p, as part 1 converts it
RowDown(p, i) ==
    LET raw == pg_pages[p].table[YsDown(p)[i]]
    IN  IF Len(raw[1]) > DateColumnLen THEN <<Strip(raw[1])>>
        ELSE [c \in 1..Len(raw) |->
                 convert_cell_text(pg_pages[p].date, raw[c], COLUMNS[c].convert_method).val]

RECURSIVE RowsBefore(_)
\* The number of rows of the pages before page p
RowsBefore(p) ==
    IF p = 1 THEN 0
    ELSE RowsBefore(p - 1) + Cardinality(DOMAIN pg_pages[p - 1].table)

\* C24: the rows of a page are taken one for each y of its table, from the
\* highest y down, and the table part 2 works on is the rows of page 1, then
\* those of page 2, and so on.
C24_RowsTopDownPageByPage ==
    pg_pc \in {"loop", "done"} =>
        /\ Len(pg_table) = RowsBefore(Len(pg_pages) + 1)
        /\ \A p \in DOMAIN pg_pages :
              \A i \in 1..Cardinality(DOMAIN pg_pages[p].table) :
                  pg_table[RowsBefore(p) + i] = RowDown(p, i)

\* Two rows on the first page, not the same, and a third on the second page
C24_Witness ==
    /\ pg_pc = "loop"
    /\ Len(pg_pages) = 2
    /\ pg_pages[1].page_nr = 1 /\ pg_pages[2].page_nr = 2
    /\ Cardinality(DOMAIN pg_pages[1].table) = 2
    /\ RowDown(1, 1) # RowDown(1, 2)
    /\ Cardinality(DOMAIN pg_pages[2].table) = 1
    /\ Len(pg_table) = 3

\* A page is not numbered by its place, or a later page is not dated as the
\* first is
PagesViolate ==
    \E p \in DOMAIN pg_pages :
        pg_pages[p].page_nr # p \/ pg_pages[p].date # pg_pages[1].date

\* C21: when the i-th page is not numbered i, or a page after the first has
\* another date than the first, get_transactions_from_pages fails, and it
\* does so in part 1, before a Transaction is yielded: none is ever yielded.
C21_PagesCheckedFirst ==
    PagesViolate =>
        /\ pg_out = <<>>
        /\ pg_pc \in {"start", "failed"}
        /\ pg_pc = "failed" => pg_table = <<>> /\ pg_k = 0

\* The second page is dated another day, and the first page, in order, has
\* a row that makes a Transaction
C21_Witness ==
    /\ pg_pc = "failed"
    /\ pg_err = "AssertionError"
    /\ Len(pg_pages) = 2
    /\ pg_pages[1].page_nr = 1 /\ pg_pages[2].page_nr = 2
    /\ pg_pages[2].date # pg_pages[1].date
    /\ \E y \in DOMAIN pg_pages[1].table : pg_pages[1].table[y] = RawRow.tx
    /\ pg_out = <<>>

\* The row of the pages that is the j-th row of the table
RawAt(j) ==
    LET p == CHOOSE q \in DOMAIN pg_pages :
                 RowsBefore(q) < j /\ j <= RowsBefore(q + 1)
    IN  pg_pages[p].table[YsDown(p)[j - RowsBefore(p)]]

\* The text of the Bij/Af cell of the row the i-th Transaction is made of
Indicator(i) == Strip(RawAt(pg_from[i])[9])

----------------------------------------------------------------------------
(* Claims about Page.visitor *)

\* The last call's text is one the visitor passes over: white space only, in
\* font size 6, or a match of the patterns of the boilerplate
PassedOver ==
    \/ \A i \in 1..Len(vs_arg.text) : vs_arg.text[i] \in WS
    \/ vs_arg.font_size = 6
    \/ \E k \in DOMAIN DENYLIST : re_match(DENYLIST[k], 1, vs_arg.text, 1)

\* The last call's text is a cell of the table: not passed over, in font
\* size 8 under the identity matrices, at a y of the main table of the page,
\* under the header of the table
TableCell ==
    /\ ~PassedOver
    /\ vs_arg.font_size = 8
    /\ vs_arg.cm = <<1, 0, 0, 1, 0, 0>>
    /\ SubSeq(vs_arg.tm, 1, 4) = <<1, 0, 0, 1>>
    /\ (IF vs_before.nr = 1 THEN 126 ELSE 0) <= vs_arg.tm[6]
    /\ vs_arg.tm[6] < 633

\* The columns whose interval has the x of the last call
ColumnsAt ==
    {c \in DOMAIN COLUMNS :
        COLUMNS[c].x_interval.low <= vs_arg.tm[5] /\ vs_arg.tm[5] < COLUMNS[c].x_interval.high}

\* The cell of row y and column c of a table, empty in a row not yet there
CellOf(table, y, c) == IF y \in DOMAIN table THEN table[y][c] ELSE <<>>

\* C26: a call of the visitor with a cell of the table stores the text at
\* table[y][c], c the one column whose interval, low <= x < high, has x, and
\* changes no other cell, no other row and none of date, page_nr and
\* total_pages; the intervals of the nine columns are disjoint, so that at
\* most one has x; and when none has x the call fails and no row is made or
\* changed.
C26_CellStoredInOneColumn ==
    /\ Len(COLUMNS) = 9
    /\ \A c \in DOMAIN COLUMNS : \A d \in DOMAIN COLUMNS :
          c < d => \/ COLUMNS[c].x_interval.high <= COLUMNS[d].x_interval.low
                   \/ COLUMNS[d].x_interval.high <= COLUMNS[c].x_interval.low
    /\ (vs_calls >= 1 /\ TableCell) =>
          IF ColumnsAt = {}
          THEN ~vs_ret.ok /\ vs_page = vs_before
          ELSE /\ Cardinality(ColumnsAt) = 1
               /\ vs_ret = Ok(None)
               /\ DOMAIN vs_page.table = DOMAIN vs_before.table \cup {vs_arg.tm[6]}
               /\ \A y \in DOMAIN vs_page.table : \A c \in DOMAIN COLUMNS :
                     vs_page.table[y][c] =
                        IF y = vs_arg.tm[6] /\ c \in ColumnsAt THEN vs_arg.text
                        ELSE CellOf(vs_before.table, y, c)
               /\ [vs_page EXCEPT !.table = <<>>] = [vs_before EXCEPT !.table = <<>>]

\* A second cell was stored in a row that was there, in another column
C26_Witness ==
    /\ vs_calls = 2
    /\ TableCell
    /\ vs_ret = Ok(None)
    /\ vs_arg.tm[6] \in DOMAIN vs_before.table
    /\ \E c \in ColumnsAt : \E d \in DOMAIN COLUMNS :
          /\ c # d
          /\ vs_before.table[vs_arg.tm[6]][c] = <<>>
          /\ vs_before.table[vs_arg.tm[6]][d] # <<>>
          /\ vs_page.table[vs_arg.tm[6]][c] = vs_arg.text
          /\ vs_page.table[vs_arg.tm[6]][d] = vs_before.table[vs_arg.tm[6]][d]

\* C27: a call of the visitor with a text that is white space only, or in
\* font size 6, or a match of the boilerplate returns and does not fail, and
\* leaves table, date, page_nr and total_pages as they were, whatever the
\* matrices and the coordinates: the rules that pass a text over come before
\* the checks of the font size and of the matrices.
C27_PassedOverNeverFatal ==
    (vs_calls >= 1 /\ PassedOver) => vs_ret = Ok(None) /\ vs_page = vs_before

\* A text of the boilerplate in font size 10 under a matrix that is not the
\* identity was passed over, on a page that had a row
C27_Witness ==
    /\ vs_calls = 2
    /\ \E k \in DOMAIN DENYLIST : re_match(DENYLIST[k], 1, vs_arg.text, 1)
    /\ vs_arg.font_size = 10
    /\ vs_arg.cm # <<1, 0, 0, 1, 0, 0>>
    /\ vs_before.table # <<>>
    /\ vs_ret = Ok(None)
    /\ vs_page = vs_before
====
